---- MODULE Spec2Model ----
(***************************************************************************)
(* Model of the POV video pipeline: the step runner of scripts/main.py     *)
(* (run_step, run_pipeline, main), the JSON artifact files it writes, and  *)
(* the spreadsheet ledger of utils/google_sheets.py as it is read and      *)
(* written by the idea, composition and publishing stages.                 *)
(***************************************************************************)
EXTENDS Integers, Sequences, FiniteSets, TLC

VARIABLES
    args,           \* parsed command line: mode, step, start, end, retry, keep_temp
    pc,             \* position of the process inside main / run_pipeline / run_step
    steps_to_run,   \* run_pipeline: the resolved window
    step_index,     \* run_pipeline: number of stages of the window already handled
    step_id,        \* run_step: the stage being run ("" when none)
    attempt,        \* run_step: loop variable of `for attempt in range(retry_count)`
    behaviour,      \* what the current stage function does on each call
    calls,          \* run_step: invocations of the stage function in this call
    invoked,        \* stages whose function has been invoked, in order of first call
    result,         \* value returned by the last run_step call
    results,        \* run_pipeline: per-stage {"success": bool}, as a sequence of records
    success_count,  \* run_pipeline: number of successful stages
    files,          \* TEMP_DIR: <stage>_result.json per stage, Absent or a JSON document
    files0,         \* TEMP_DIR as it was when the process started
    summary_file,   \* TEMP_DIR/pipeline_summary.json, Absent or the summary
    warned,         \* dependencies run_step logged as missing
    exit_code,      \* process exit code, NotExited while running
    sheet,          \* the spreadsheet: rows of cells, row 1 is the header
    sheet0,         \* the spreadsheet as it was at the start
    ledger          \* the last ledger operation: its inputs, failed requests, result

runner_vars == <<args, pc, steps_to_run, step_index, step_id, attempt, behaviour,
                 calls, invoked, result, results, success_count, files, files0,
                 summary_file, warned, exit_code>>
ledger_vars == <<sheet, sheet0, ledger>>
vars == <<args, pc, steps_to_run, step_index, step_id, attempt, behaviour,
          calls, invoked, result, results, success_count, files, files0,
          summary_file, warned, exit_code, sheet, sheet0, ledger>>

(***************************************************************************)
(* Bounds                                                                  *)
(***************************************************************************)
MaxRetry == 2

(***************************************************************************)
(* Python values and JSON documents                                        *)
(***************************************************************************)
PyNone == [t |-> "none"]
PyBool(b) == [t |-> "bool", b |-> b]
PyInt(n) == [t |-> "int", n |-> n]
PyStr(s) == [t |-> "str", s |-> s]
PyList(items) == [t |-> "list", items |-> items]
PyTuple(items) == [t |-> "tuple", items |-> items]
PyDict(keys, vals) == [t |-> "dict", keys |-> keys, vals |-> vals]

\* bool(v) as Python evaluates `if result`
Truthy(v) ==
    CASE v.t = "none" -> FALSE
      [] v.t = "bool" -> v.b
      [] v.t = "int" -> v.n # 0
      [] v.t = "str" -> v.s # ""
      [] v.t = "list" -> Len(v.items) > 0
      [] v.t = "tuple" -> Len(v.items) > 0
      [] v.t = "dict" -> Len(v.keys) > 0

\* isinstance(result, dict) or isinstance(result, list)
IsDictOrList(v) == v.t = "dict" \/ v.t = "list"

RECURSIVE json_dump(_)
\* json.dump: the JSON text, kept as its document tree
json_dump(v) ==
    CASE v.t = "none" -> [j |-> "null"]
      [] v.t = "bool" -> [j |-> IF v.b THEN "true" ELSE "false"]
      [] v.t = "int" -> [j |-> "number", n |-> v.n]
      [] v.t = "str" -> [j |-> "string", s |-> v.s]
      [] v.t = "list" -> [j |-> "array",
                          items |-> [i \in 1..Len(v.items) |-> json_dump(v.items[i])]]
      [] v.t = "tuple" -> [j |-> "array",
                           items |-> [i \in 1..Len(v.items) |-> json_dump(v.items[i])]]
      [] v.t = "dict" -> [j |-> "object", keys |-> v.keys,
                          vals |-> [i \in 1..Len(v.vals) |-> json_dump(v.vals[i])]]

RECURSIVE json_load(_)
\* json.load: the Python value a JSON document reads back as
json_load(d) ==
    CASE d.j = "null" -> PyNone
      [] d.j = "true" -> PyBool(TRUE)
      [] d.j = "false" -> PyBool(FALSE)
      [] d.j = "number" -> PyInt(d.n)
      [] d.j = "string" -> PyStr(d.s)
      [] d.j = "array" -> PyList([i \in 1..Len(d.items) |-> json_load(d.items[i])])
      [] d.j = "object" -> PyDict(d.keys, [i \in 1..Len(d.vals) |-> json_load(d.vals[i])])

RECURSIVE JSONRepresentable(_)
\* values whose Python type is one of the JSON types (a tuple is not)
JSONRepresentable(v) ==
    CASE v.t = "tuple" -> FALSE
      [] v.t = "list" -> \A i \in 1..Len(v.items) : JSONRepresentable(v.items[i])
      [] v.t = "dict" -> \A i \in 1..Len(v.vals) : JSONRepresentable(v.vals[i])
      [] OTHER -> TRUE

\* results a stage function can hand back
EmptyList == PyList(<<>>)
EmptyDict == PyDict(<<>>, <<>>)
IdeaList == PyList(<<PyDict(<<"ID", "Idea">>, <<PyStr("1"), PyStr("POV: scribe")>>)>>)
SuccessDict == PyDict(<<"success", "drive_result">>,
                      <<PyBool(TRUE), PyDict(<<"file_id">>, <<PyStr("f1")>>)>>)
FailDict == PyDict(<<"success", "error">>, <<PyBool(FALSE), PyStr("no video")>>)
SizeDict == PyDict(<<"resolution">>, <<PyTuple(<<PyInt(540), PyInt(960)>>)>>)

StepPayloads == {PyNone, EmptyList, EmptyDict, IdeaList, SuccessDict, FailDict,
                 SizeDict, PyStr("done"), PyStr(""), PyInt(0), PyInt(5), PyBool(TRUE)}
\* what the stage functions return inside a pipeline run: the list stages a
\* (possibly empty) list, the scene stages a dict, compose and publish a dict
\* with a success flag; every one of them None after an error
PipelinePayloads(s) ==
    CASE s \in {"ideas", "images", "videos", "audio"} -> {PyNone, EmptyList, IdeaList}
      [] s \in {"scenes", "prompts"} -> {PyNone, EmptyDict, SuccessDict}
      [] OTHER -> {PyNone, FailDict, SuccessDict}

(***************************************************************************)
(* The spreadsheet behind utils/google_sheets.py                           *)
(***************************************************************************)
MaxRows == 5
MaxFaults == 1
MaxIdeas == 2
MaxInitRows == 2

\* IDEAS_SHEET_RANGE = "A:G": reads cover the first seven columns only
RangeCols == 7

Max(S) == CHOOSE x \in S : \A y \in S : y <= x
Min(S) == CHOOSE x \in S : \A y \in S : x <= y
Min2(a, b) == IF a <= b THEN a ELSE b
Max2(a, b) == IF a >= b THEN a ELSE b
\* the element of a one-element set; {e(x) : x \in {v}} is e with x bound to
\* the value of v
The(S) == CHOOSE x \in S : TRUE
Seq0(n, f(_)) == IF n <= 0 THEN <<>> ELSE [i \in 1..n |-> f(i)]

\* str(n) and int(s) on the decimal numerals the model needs
Numerals == <<"1", "2", "3", "4", "5", "6", "7", "8", "9", "10", "11", "12">>
str(n) == IF n = 0 THEN "0" ELSE Numerals[n]
isdigit(s) == s = "0" \/ \E i \in 1..Len(Numerals) : Numerals[i] = s
int(s) == IF s = "0" THEN 0 ELSE CHOOSE i \in 1..Len(Numerals) : Numerals[i] = s

\* s.strip(), s.upper(), s.lower() on the strings that occur in the sheet
strip(s) ==
    CASE s = " 2" -> "2"
      [] s = " " -> ""
      [] OTHER -> s
upper(s) ==
    CASE s = "id" -> "ID"
      [] s = "Idea" -> "IDEA"
      [] s = "Hashtag" -> "HASHTAG"
      [] s = "Caption" -> "CAPTION"
      [] s = "Production" -> "PRODUCTION"
      [] s = "Environment_Prompt" -> "ENVIRONMENT_PROMPT"
      [] s = "Status_Publishing" -> "STATUS_PUBLISHING"
      [] s = "Status Publishing" -> "STATUS PUBLISHING"
      [] s = "Final_Output" -> "FINAL_OUTPUT"
      [] s = "link-youtube" -> "LINK-YOUTUBE"
      [] s = "POV: idea" -> "POV: IDEA"
      [] OTHER -> s
lower(s) ==
    CASE s = "ID" -> "id"
      [] s = "Idea" -> "idea"
      [] s = "Hashtag" -> "hashtag"
      [] s = "Caption" -> "caption"
      [] s = "Production" -> "production"
      [] s = "Environment_Prompt" -> "environment_prompt"
      [] s = "Status_Publishing" -> "status_publishing"
      [] s = "Status Publishing" -> "status publishing"
      [] s = "Final_Output" -> "final_output"
      [] s = "VIDEO_URL" -> "video_url"
      [] s = "For Publishing" -> "for publishing"
      [] s = "FOR PUBLISHING" -> "for publishing"
      [] s = "FOR PRODUCTION" -> "for production"
      [] s = "For Production" -> "for production"
      [] s = "POV: idea" -> "pov: idea"
      [] OTHER -> s

\* the Sheets API leaves trailing empty cells and trailing empty rows out
TrimRow(row) ==
    LET used == {i \in 1..Len(row) : row[i] # ""}
    IN IF used = {} THEN <<>> ELSE SubSeq(row, 1, Max(used))
TrimSheet(sh) ==
    LET rows == Seq0(Len(sh), LAMBDA i : TrimRow(sh[i]))
        used == {i \in 1..Len(rows) : rows[i] # <<>>}
    IN IF used = {} THEN <<>> ELSE SubSeq(rows, 1, Max(used))

Cell(row, c) == IF c >= 1 /\ c <= Len(row) THEN row[c] ELSE ""
\* row + [''] * (n - len(row))
Extend(row, n) == row \o Seq0(n - Len(row), LAMBDA i : "")

\* get_values, lines 82-106: the rows of the range, [] when the request fails
get_values(sh, ok) ==
    IF ok
    THEN TrimSheet(Seq0(Len(sh), LAMBDA i : SubSeq(sh[i], 1, Min2(Len(sh[i]), RangeCols))))
    ELSE <<>>

\* the cells of row r from column c on replaced by vals
WriteCells(sh, r, c, vals) ==
    LET n == Max2(Len(sh), r)
        base == Seq0(n, LAMBDA i : IF i <= Len(sh) THEN sh[i] ELSE <<>>)
        w == Max2(Len(base[r]), c + Len(vals) - 1)
        new == Seq0(w, LAMBDA k : IF k >= c /\ k < c + Len(vals)
                                  THEN vals[k - c + 1] ELSE Cell(base[r], k))
    IN TrimSheet([base EXCEPT ![r] = new])

\* update_values, lines 107-140: the sheet afterwards and the updatedCells count
update_values(sh, r, c, vals, ok) ==
    IF ok THEN [sheet |-> WriteCells(sh, r, c, vals), count |-> Len(vals)]
    ELSE [sheet |-> sh, count |-> 0]

\* append_values, lines 142-177: rows inserted after the last row of the table
append_values(sh, rows, ok) ==
    IF ok THEN [sheet |-> TrimSheet(sh \o rows), count |-> Len(rows)]
    ELSE [sheet |-> sh, count |-> 0]

\* first position whose header satisfies the test, 0 when there is none
FirstHeader(headers, Test(_)) ==
    LET hits == {i \in 1..Len(headers) : Test(headers[i])}
    IN IF hits = {} THEN 0 ELSE CHOOSE i \in hits : \A k \in hits : i <= k

RECURSIVE max_id_loop(_, _, _, _)
\* get_next_available_id, lines 697-707: the loop over the data rows
max_id_loop(values, c, r, max_id) ==
    IF r > Len(values) THEN max_id
    ELSE LET id_str == strip(Cell(values[r], c))
             next == IF Len(values[r]) >= c /\ id_str # "" /\ isdigit(id_str)
                     THEN Max2(max_id, int(id_str)) ELSE max_id
         IN max_id_loop(values, c, r + 1, next)

\* get_next_available_id, lines 668-715, on what its own read returned
get_next_available_id_first(values) == 1
get_next_available_id(values) ==
    IF Len(values) < 2 THEN 1
    ELSE LET c == FirstHeader(values[1], LAMBDA h : upper(h) = "ID")
         IN IF c = 0 THEN 1 ELSE max_id_loop(values, c, 2, 0) + 1

\* the header row append_new_ideas falls back to, line 549
DefaultHeaders == <<"ID", "Idea", "Hashtag", "Caption", "Production",
                    "Environment_Prompt", "Status_Publishing">>

\* the idea dicts of idea_generator._parse_gemini_response, lines 151-159
IdeaKeys == <<"Idea", "Hashtag", "Caption", "Production", "Environment_Prompt",
              "Status_Publishing">>
IdeaValue(key) ==
    CASE key = "Idea" -> "POV: idea"
      [] key = "Hashtag" -> "#POV"
      [] key = "Caption" -> "caption"
      [] key = "Production" -> "for production"
      [] key = "Environment_Prompt" -> "env"
      [] key = "Status_Publishing" -> "pending"

\* append_new_ideas, lines 586-614: the cell written under one header
idea_cell(header) ==
    CASE header \in {"Idea", "Hashtag", "Caption", "Production", "Environment_Prompt"} ->
            IdeaValue(header)
      [] header \in {"Status Publishing", "Status_Publishing"} -> "pending"
      [] OTHER ->
            LET k == FirstHeader(IdeaKeys, LAMBDA key : lower(key) = lower(header))
            IN IF k = 0 THEN "" ELSE IdeaValue(IdeaKeys[k])

\* append_new_ideas, lines 581-617: the row of the idea with index i (from 0)
idea_row_unnumbered(headers, id_column_index, starting_id, i) == Seq0(Len(headers), LAMBDA c : idea_cell(headers[c]))
idea_row(headers, id_column_index, starting_id, i) ==
    Seq0(Len(headers), LAMBDA c : IF c = id_column_index THEN str(starting_id + i)
                                  ELSE idea_cell(headers[c]))

\* append_new_ideas, lines 526-632, for k ideas; f names which of its four
\* requests succeed (first read, header write, read of get_next_available_id,
\* append)
append_new_ideas(sh, k, f) ==
    IF k = 0 THEN [sheet |-> sh, ret |-> FALSE]
    ELSE
    LET current_values == get_values(sh, f["read1"])
        headers0 == IF Len(current_values) > 0 THEN current_values[1] ELSE DefaultHeaders
        found == FirstHeader(headers0, LAMBDA h : upper(h) = "ID")
        headers == IF found = 0 THEN <<"ID">> \o headers0 ELSE headers0
        id_column_index == IF found = 0 THEN 1 ELSE found
        sh1 == IF found = 0 THEN update_values(sh, 1, 1, headers, f["header"]).sheet ELSE sh
        next_id == get_next_available_id(get_values(sh1, f["read2"]))
        rows == Seq0(k, LAMBDA i : idea_row(headers, id_column_index, next_id, i - 1))
        appended == append_values(sh1, rows, f["append"])
    IN [sheet |-> appended.sheet, ret |-> appended.count > 0]

\* last position whose header satisfies the test (a loop without break), 0 when none
LastHeader(headers, Test(_)) ==
    LET hits == {i \in 1..Len(headers) : Test(headers[i])}
    IN IF hits = {} THEN 0 ELSE Max(hits)

\* first data row (index into values, from 2) satisfying the test, 0 when none
FirstRow(values, Test(_)) ==
    LET hits == {r \in 2..Len(values) : Test(values[r])}
    IN IF hits = {} THEN 0 ELSE CHOOSE r \in hits : \A k \in hits : r <= k

\* headers.index("ID") if "ID" in headers else 0, as a column number from 1
id_col_exact(headers) ==
    LET c == FirstHeader(headers, LAMBDA h : h = "ID") IN IF c = 0 THEN 1 ELSE c

IsStatusHeader(h) == h = "Status Publishing" \/ h = "Status_Publishing"

\* VideoComposer.update_video_link_in_sheets, lines 1138-1263; f names which
\* of its requests succeed (read, the two header writes, the row write)
update_video_link_in_sheets(sh, video_link, f) ==
    The({
       IF Len(values) < 2 THEN [sheet |-> sh, ret |-> FALSE, row |-> 0]
       ELSE
       LET headers0 == values[1]
           fo0 == LastHeader(headers0, LAMBDA h : h = "Final_Output")
           st0 == LastHeader(headers0, IsStatusHeader)
           headers1 == IF fo0 = 0 THEN Append(headers0, "Final_Output") ELSE headers0
           final_output_col_index == IF fo0 = 0 THEN Len(headers1) ELSE fo0
           sh1 == IF fo0 = 0 THEN update_values(sh, 1, 1, headers1, f["header1"]).sheet ELSE sh
           headers2 == IF st0 = 0 THEN Append(headers1, "Status Publishing") ELSE headers1
           status_publishing_col_index == IF st0 = 0 THEN Len(headers2) ELSE st0
           sh2 == IF st0 = 0 THEN update_values(sh1, 1, 1, headers2, f["header2"]).sheet ELSE sh1
           row_index == FirstRow(values, LAMBDA row :
                            /\ Cell(row, final_output_col_index) = ""
                            /\ Cell(row, status_publishing_col_index) # "published")
       IN IF row_index = 0 THEN [sheet |-> sh2, ret |-> FALSE, row |-> 0]
          ELSE
          LET width == Max2(Len(values[row_index]),
                            Max2(final_output_col_index, status_publishing_col_index))
              row_values == [[Extend(values[row_index], width)
                                EXCEPT ![final_output_col_index] = video_link]
                                EXCEPT ![status_publishing_col_index] = "for publishing"]
              done == update_values(sh2, row_index, 1, row_values, f["row"])
          IN [sheet |-> done.sheet, ret |-> done.count > 0, row |-> row_index]
       : values \in {get_values(sh, f["read"])}})

\* YouTubePublisher.update_video_link, lines 461-554; requests: read, header
\* write, cell write
publisher_update_video_link(sh, idea_id, video_url, ok) ==
    The({
       IF Len(values) < 2 THEN [sheet |-> sh, ret |-> FALSE]
       ELSE
       LET headers0 == values[1]
           yc0 == FirstHeader(headers0, LAMBDA h : lower(h) = "link-youtube")
           headers == IF yc0 = 0 THEN Append(headers0, "link-youtube") ELSE headers0
           youtube_col_index == IF yc0 = 0 THEN Len(headers) ELSE yc0
           hdr == IF yc0 = 0 THEN update_values(sh, 1, 1, headers, ok.header)
                  ELSE [sheet |-> sh, count |-> 1]
       IN IF hdr.count = 0 THEN [sheet |-> sh, ret |-> FALSE]
          ELSE
          LET id_col_index == FirstHeader(headers, LAMBDA h : upper(h) = "ID")
              by_id == IF idea_id # "" /\ id_col_index # 0
                       THEN FirstRow(values, LAMBDA row :
                                /\ Len(row) >= id_col_index
                                /\ strip(row[id_col_index]) = strip(idea_id))
                       ELSE 0
              status_col_index == FirstHeader(headers, IsStatusHeader)
              by_status == IF status_col_index # 0
                           THEN FirstRow(values, LAMBDA row :
                                    /\ Len(row) >= status_col_index
                                    /\ lower(row[status_col_index]) = "for publishing")
                           ELSE 0
              row_index == IF by_id # 0 THEN by_id ELSE by_status
          IN IF row_index = 0 THEN [sheet |-> hdr.sheet, ret |-> FALSE]
             ELSE LET done == update_values(hdr.sheet, row_index, youtube_col_index,
                                            <<video_url>>, ok.cell)
                  IN [sheet |-> done.sheet, ret |-> done.count > 0]
       : values \in {get_values(sh, ok.read)}})

\* GoogleSheetsManager.update_video_link, lines 376-459; requests: read,
\* header write, the two row writes
update_video_link(sh, idea_id, video_url, ok) ==
    The({
       IF Len(values) < 2 THEN [sheet |-> sh, ret |-> FALSE]
       ELSE
       LET headers0 == values[1]
           vc0 == FirstHeader(headers0, LAMBDA h : h = "VIDEO_URL")
           headers == IF vc0 = 0 THEN Append(headers0, "VIDEO_URL") ELSE headers0
           video_url_col_index == IF vc0 = 0 THEN Len(headers) ELSE vc0
           sh1 == IF vc0 = 0 THEN update_values(sh, 1, 1, headers, ok.header).sheet ELSE sh
           \* the rows as the loop of line 417 leaves them
           rows == Seq0(Len(values), LAMBDA i :
                       IF vc0 = 0 /\ i >= 2 /\ Len(values[i]) < Len(headers)
                       THEN Extend(values[i], Len(headers)) ELSE values[i])
           id_col_index == id_col_exact(headers)
           short == FirstRow(rows, LAMBDA row : Len(row) < id_col_index)
           match == FirstRow(rows, LAMBDA row :
                        Len(row) >= id_col_index /\ row[id_col_index] = idea_id)
       IN IF short # 0 /\ (match = 0 \/ short < match)
          THEN [sheet |-> sh1, ret |-> FALSE]        \* IndexError at line 426
          ELSE IF match = 0 THEN [sheet |-> sh1, ret |-> FALSE]
          ELSE
          LET width == Max2(Len(rows[match]), video_url_col_index)
              row_values == [Extend(rows[match], width)
                                EXCEPT ![video_url_col_index] = video_url]
              sh2 == update_values(sh1, match, 1, row_values, ok.row1).sheet
              status_col_index == FirstHeader(headers, LAMBDA h : h = "Status_Publishing")
          IN IF status_col_index = 0 THEN [sheet |-> sh2, ret |-> TRUE]
             ELSE IF status_col_index > Len(row_values)
             THEN [sheet |-> sh2, ret |-> FALSE]     \* IndexError at line 449
             ELSE [sheet |-> update_values(sh2, match, 1,
                                [row_values EXCEPT ![status_col_index] = "for publishing"],
                                ok.row2).sheet,
                   ret |-> TRUE]
       : values \in {get_values(sh, ok.read)}})

\* GoogleSheetsManager.update_publishing_status, lines 461-524; requests:
\* read, row write
update_publishing_status_skipped(sh, idea_id, status, ok) == [sheet |-> sh, ret |-> TRUE]
update_publishing_status(sh, idea_id, status, ok) ==
    The({
       IF Len(values) < 2 THEN [sheet |-> sh, ret |-> FALSE]
       ELSE
       LET headers == values[1]
           status_col_index == FirstHeader(headers, IsStatusHeader)
           id_col_index == id_col_exact(headers)
           row_index == FirstRow(values, LAMBDA row :
                            Len(row) >= id_col_index /\ row[id_col_index] = idea_id)
       IN IF status_col_index = 0 \/ row_index = 0 THEN [sheet |-> sh, ret |-> FALSE]
          ELSE
          LET width == Max2(Len(values[row_index]), status_col_index)
              row_values == [Extend(values[row_index], width)
                                EXCEPT ![status_col_index] = status]
          IN [sheet |-> update_values(sh, row_index, 1, row_values, ok.row).sheet,
              ret |-> TRUE]
       : values \in {get_values(sh, ok.read)}})

\* YouTubePublisher.update_production_status, lines 822-892; requests: read,
\* cell write
update_production_status_unchecked(sh, idea_id, status, ok) == [sheet |-> sh, ret |-> TRUE]
update_production_status(sh, idea_id, status, ok) ==
    The({
       IF Len(values) < 2 THEN [sheet |-> sh, ret |-> FALSE]
       ELSE
       LET headers == values[1]
           production_col_index == FirstHeader(headers, LAMBDA h : h = "Production")
           id_col_index == FirstHeader(headers, LAMBDA h : upper(h) = "ID")
           row_index == IF id_col_index = 0 THEN 0
                        ELSE FirstRow(values, LAMBDA row :
                                 /\ Len(row) >= id_col_index
                                 /\ strip(row[id_col_index]) = strip(idea_id))
       IN IF production_col_index = 0 \/ row_index = 0 THEN [sheet |-> sh, ret |-> FALSE]
          ELSE LET done == update_values(sh, row_index, production_col_index,
                                         <<status>>, ok.cell)
               IN [sheet |-> done.sheet, ret |-> done.count > 0]
       : values \in {get_values(sh, ok.read)}})

\* the watch URL built from a video id, lines 770 and 899
youtube_url(video_id) == IF video_id = "v1" THEN "yt1" ELSE "yt2"

\* YouTubePublisher.update_idea_status, lines 893-945; ok holds the request
\* flags of the four updates it may make
update_idea_status(sh, idea_id, video_id, ok) ==
    LET video_url == youtube_url(video_id)
    IN The({The({The({The({
        [sheet |-> production.sheet,
         ret |-> link2.ret \/ status.ret \/ production.ret,
         link_success |-> link2.ret, status_success |-> status.ret,
         production_success |-> production.ret]
        : production \in {update_production_status(status.sheet, idea_id, "done",
                                                    ok.production)}})
        : status \in {update_publishing_status(link2.sheet, idea_id, "published",
                                                ok.status)}})
        : link2 \in {IF link1.ret THEN link1
                      ELSE update_video_link(link1.sheet, idea_id, video_url,
                                             ok.fallback)}})
        : link1 \in {publisher_update_video_link(sh, idea_id, video_url, ok.link)}})

\* convert_to_dict_list, lines 253-277: row_dict[key] (a later duplicate header wins)
dict_get(headers, row, key) ==
    LET c == LastHeader(headers, LAMBDA h : h = key) IN Cell(row, c)
dict_has(headers, key) == \E c \in 1..Len(headers) : headers[c] = key

\* get_ideas_for_publishing, lines 339-374: the data rows (indexes into
\* values) whose publishing status is "for publishing" in any casing
get_ideas_for_publishing(values) ==
    IF Len(values) < 2 THEN {}
    ELSE {r \in 2..Len(values) :
            LET status1 == dict_get(values[1], values[r], "Status Publishing")
                status == IF status1 # "" THEN status1
                          ELSE dict_get(values[1], values[r], "Status_Publishing")
            IN lower(status) = lower("for publishing")}

\* get_ideas_for_production, lines 307-337: exact comparison with
\* STATUS_FOR_PRODUCTION
get_ideas_for_production_anycase(values) == {r \in 2..Len(values) : lower(dict_get(values[1], values[r], "Production")) = "for production"}
get_ideas_for_production(values) ==
    IF Len(values) < 2 THEN {}
    ELSE {r \in 2..Len(values) :
            dict_has(values[1], "Production")
            /\ dict_get(values[1], values[r], "Production") = "for production"}

\* process_youtube_publishing, lines 699-737: the ID of the chosen idea, ""
\* when none can be determined; values2 is the second read of line 717
find_idea_id(values, r, values2) ==
    LET headers == values[1]
        key == FirstHeader(headers, LAMBDA h : lower(h) = "id")
        from_dict == IF dict_has(headers, "ID") THEN dict_get(headers, values[r], "ID")
                     ELSE IF dict_has(headers, "id") THEN dict_get(headers, values[r], "id")
                     ELSE IF key # 0 THEN dict_get(headers, values[r], headers[key])
                     ELSE ""
    IN IF from_dict # "" THEN from_dict
       ELSE IF Len(values2) < 2 THEN ""
       ELSE LET id_col == LastHeader(values2[1], LAMBDA h : lower(h) = "id")
                status_col == LastHeader(values2[1], LAMBDA h : lower(h) \in
                                  {"status_publishing", "status publishing"})
                hit == IF id_col = 0 \/ status_col = 0 THEN 0
                       ELSE FirstRow(values2, LAMBDA row :
                                /\ Len(row) >= status_col
                                /\ lower(row[status_col]) = "for publishing"
                                /\ Len(row) >= id_col)
            IN IF hit = 0 THEN "" ELSE values2[hit][id_col]

\* SceneSequenceGenerator.process_selected_idea, lines 174-181: the row of
\* ideas[0] among the ideas for production, 0 when there is none
selected_idea(values) ==
    IF get_ideas_for_production(values) = {} THEN 0
    ELSE Min(get_ideas_for_production(values))

\* process_youtube_publishing, line 698: idea = ideas[0], as a row index
first_idea_last(ideas) == Max(ideas)
first_idea(ideas) == Min(ideas)

\* process_youtube_publishing, lines 678-820, as it acts on the spreadsheet:
\* video_id is what the upload returned ("" when no video was found or the
\* upload failed)
process_youtube_publishing(sh, video_id, ok) ==
    The({
       IF ideas = {}
       THEN [sheet |-> sh, success |-> FALSE, skip_upload |-> TRUE, uploaded |-> FALSE,
             row |-> 0, idea_id |-> "", update_status_success |-> FALSE]
       ELSE
       The({
          IF video_id = ""
          THEN [sheet |-> sh, success |-> FALSE, skip_upload |-> FALSE, uploaded |-> FALSE,
                row |-> first_idea(ideas), idea_id |-> idea_id, update_status_success |-> FALSE]
          ELSE
          The({[sheet |-> upd.sheet, success |-> TRUE, skip_upload |-> FALSE,
                uploaded |-> TRUE, row |-> first_idea(ideas), idea_id |-> idea_id,
                update_status_success |-> upd.ret]
               : upd \in {IF idea_id # ""
                           THEN update_idea_status(sh, idea_id, video_id, ok)
                           ELSE [sheet |-> sh, ret |-> FALSE]}})
          \* the idea is ideas[0]
          : idea_id \in {find_idea_id(values, first_idea(ideas), get_values(sh, ok.lookup))}})
       : values \in {get_values(sh, ok.ideas)},
         ideas \in {get_ideas_for_publishing(get_values(sh, ok.ideas))}})


\* which requests of an operation succeed: every choice with at most
\* MaxFaults failing ones
FaultChoices(names) ==
    {[n \in names |-> n \notin failing] :
        failing \in {F \in SUBSET names : Cardinality(F) <= MaxFaults}}

\* every choice with at most n failing requests
FaultsUpTo(names, n) ==
    {[r \in names |-> r \notin failing] :
        failing \in {F \in SUBSET names : Cardinality(F) <= n}}

AppendRequests == {"read1", "header", "read2", "append"}
ComposeRequests == {"read", "header1", "header2", "row"}
PublishRequests == {"ideas", "lookup", "link_read", "link_header", "link_cell",
                    "fallback_read", "fallback_header", "fallback_row1", "fallback_row2",
                    "status_read", "status_row", "production_read", "production_cell"}
AppendFaults == FaultChoices(AppendRequests)
NoFault(names) == [n \in names |-> TRUE]

\* the request flags of process_youtube_publishing, grouped per update
PublishOk(f) ==
    [ideas |-> f["ideas"], lookup |-> f["lookup"],
     link |-> [read |-> f["link_read"], header |-> f["link_header"],
               cell |-> f["link_cell"]],
     fallback |-> [read |-> f["fallback_read"], header |-> f["fallback_header"],
                   row1 |-> f["fallback_row1"], row2 |-> f["fallback_row2"]],
     status |-> [read |-> f["status_read"], row |-> f["status_row"]],
     production |-> [read |-> f["production_read"], cell |-> f["production_cell"]]]

(***************************************************************************)
(* scripts/main.py                                                         *)
(***************************************************************************)
None == ""
Absent == [j |-> "absent"]
NotExited == -1
StaleDoc == json_dump(PyDict(<<"stale">>, <<PyBool(TRUE)>>))

\* list(STEPS.keys())
STEPS == <<"ideas", "scenes", "prompts", "images", "videos", "audio", "compose", "publish">>
StepIds == {STEPS[i] : i \in 1..Len(STEPS)}

depends_on ==
    [s \in StepIds |->
        CASE s = "ideas" -> {}
          [] s = "scenes" -> {"ideas"}
          [] s = "prompts" -> {"scenes"}
          [] s = "images" -> {"prompts"}
          [] s = "videos" -> {"images"}
          [] s = "audio" -> {"scenes"}
          [] s = "compose" -> {"videos", "audio"}
          [] s = "publish" -> {"compose"}]

\* settings.STOP_ON_ERROR: config/settings.py defines no such attribute, so
\* reading it raises AttributeError
STOP_ON_ERROR == "undefined"

\* steps_to_run.index(x)
index(seq, x) == CHOOSE i \in 1..Len(seq) : seq[i] = x /\ \A k \in 1..(i - 1) : seq[k] # x
contains(seq, x) == \E i \in 1..Len(seq) : seq[i] = x

\* lines 228-236: the window run_pipeline resolves
window_whole(start_step, end_step) == STEPS
window(start_step, end_step) ==
    LET s1 == IF start_step # None /\ contains(STEPS, start_step)
              THEN SubSeq(STEPS, index(STEPS, start_step), Len(STEPS))
              ELSE STEPS
    IN IF end_step # None /\ contains(s1, end_step)
       THEN SubSeq(s1, 1, index(s1, end_step))
       ELSE s1

\* clean_temp_directory: every file of TEMP_DIR removed
clean_temp_directory(fs) == [s \in StepIds |-> Absent]

\* what the stage function does on its i-th invocation
outcome(b, i) == IF i <= b.fails THEN "raise" ELSE "return"

\* the stage function's own effect on TEMP_DIR: the publisher empties the
\* directory after a successful upload (process_youtube_publishing)
stage_effect_always(s, v, fs) == clean_temp_directory(fs)
stage_effect(s, v, fs) ==
    IF s = "publish" /\ v = SuccessDict THEN clean_temp_directory(fs) ELSE fs

\* lines 186-191: the result file is written for a truthy dict or list
save_result(s, v, fs) ==
    IF Truthy(v) /\ IsDictOrList(v) THEN [fs EXCEPT ![s] = json_dump(v)] ELSE fs

\* line 198: another attempt follows an exception
may_retry_never(attempt_no, retry_count) == FALSE
may_retry(attempt_no, retry_count) == attempt_no < retry_count - 1

\* line 249: {"success": result is not None}
success_flag_truthy(r) == Truthy(r)
success_flag_always(r) == TRUE
success_flag(r) == r # PyNone

\* lines 346-347: sys.exit(0 if success else 1)
exit_status_zero(success) == 0
exit_status(success) == IF success THEN 0 ELSE 1

Behaviours(payloads) == [fails : 0..MaxRetry, val : payloads]
NoBehaviour == [fails |-> 0, val |-> PyNone]

ArgsSet ==
    [mode : {"pipeline"}, step : {None}, start : StepIds \cup {None},
     end : StepIds \cup {None}, retry : 0..MaxRetry, keep_temp : BOOLEAN]
    \cup [mode : {"step"}, step : StepIds, start : {None}, end : {None},
          retry : 0..MaxRetry, keep_temp : {FALSE}]
    \cup [mode : {"usage"}, step : {None}, start : {None}, end : {None},
          retry : 0..MaxRetry, keep_temp : {FALSE}]

\* TEMP_DIR left behind by an earlier run that got as far as stage n
LeftBy(n) == [s \in StepIds |-> IF index(STEPS, s) <= n THEN StaleDoc ELSE Absent]

LedgerIdle == [op |-> "none"]

RunnerInit ==
    /\ args \in ArgsSet
    /\ pc = "main"
    /\ steps_to_run = <<>>
    /\ step_index = 0
    /\ step_id = None
    /\ attempt = 0
    /\ behaviour = NoBehaviour
    /\ calls = 0
    /\ invoked = <<>>
    /\ result = PyNone
    /\ results = <<>>
    /\ success_count = 0
    /\ files \in {LeftBy(0), LeftBy(4), LeftBy(8)}
    /\ files0 = files
    /\ summary_file = Absent
    /\ warned = {}
    /\ exit_code = NotExited

Init ==
    /\ RunnerInit
    /\ sheet = <<>>
    /\ sheet0 = <<>>
    /\ ledger = LedgerIdle

\* main, lines 313-339: dispatch on the arguments
main ==
    /\ pc = "main"
    /\ CASE args.mode = "step" ->
              /\ pc' = "run_step"
              /\ step_id' = args.step
              /\ UNCHANGED exit_code
         [] args.mode = "pipeline" ->
              /\ pc' = "run_pipeline"
              /\ UNCHANGED <<step_id, exit_code>>
         [] args.mode = "usage" ->
              /\ pc' = "exit"
              /\ exit_code' = exit_status(TRUE)
              /\ UNCHANGED step_id
    /\ UNCHANGED <<args, steps_to_run, step_index, attempt, behaviour, calls, invoked, result,
                   results, success_count, files, files0, summary_file, warned>>
    /\ UNCHANGED ledger_vars

\* run_pipeline, lines 219-244: clean, resolve the window
run_pipeline_begin ==
    /\ pc = "run_pipeline"
    /\ files' = IF ~args.keep_temp /\ args.start = "ideas"
                THEN clean_temp_directory(files) ELSE files
    /\ steps_to_run' = window(args.start, args.end)
    /\ results' = <<>>
    /\ success_count' = 0
    /\ step_index' = 0
    /\ pc' = "loop"
    /\ UNCHANGED <<args, step_id, attempt, behaviour, calls, invoked, result, files0,
                   summary_file, warned, exit_code>>
    /\ UNCHANGED ledger_vars

\* line 246: `for step_id in steps_to_run`, i stages already handled
next_step_backwards(steps, i) == steps[Len(steps) - i]
next_step(steps, i) == steps[i + 1]

\* run_pipeline, line 246-247: the next stage of the window is handed to run_step
run_pipeline_next ==
    /\ pc = "loop"
    /\ step_index < Len(steps_to_run)
    /\ step_id' = next_step(steps_to_run, step_index)
    /\ pc' = "run_step"
    /\ UNCHANGED <<args, steps_to_run, step_index, attempt, behaviour, calls, invoked, result,
                   results, success_count, files, files0, summary_file, warned,
                   exit_code>>
    /\ UNCHANGED ledger_vars

\* where run_step returns to
after_run_step == IF args.mode = "step" THEN "main_step_return" ELSE "record"

\* run_step, lines 162-181: dependency warnings, then the retry loop is entered;
\* with retry_count <= 0 the loop body never runs and the function returns None
run_step_enter ==
    /\ pc = "run_step"
    /\ warned' = warned \cup {d \in depends_on[step_id] : files[d] = Absent}
    /\ attempt' = 0
    /\ calls' = 0
    /\ \E b \in Behaviours(IF args.mode = "step" THEN StepPayloads
                           ELSE PipelinePayloads(step_id)) :
          behaviour' = b
    /\ IF args.retry <= 0
       THEN /\ result' = PyNone
            /\ pc' = after_run_step
       ELSE /\ pc' = "attempt"
            /\ UNCHANGED result
    /\ UNCHANGED <<args, steps_to_run, step_index, step_id, invoked, results,
                   success_count, files, files0, summary_file, exit_code>>
    /\ UNCHANGED ledger_vars

\* run_step, lines 182-204: one pass of the retry loop
run_step_attempt ==
    /\ pc = "attempt"
    /\ calls' = calls + 1
    /\ invoked' = IF contains(invoked, step_id) THEN invoked ELSE Append(invoked, step_id)
    /\ IF outcome(behaviour, calls + 1) = "return"
       THEN /\ files' = save_result(step_id, behaviour.val,
                                    stage_effect(step_id, behaviour.val, files))
            /\ result' = behaviour.val
            /\ pc' = after_run_step
            /\ UNCHANGED attempt
       ELSE IF may_retry(attempt, args.retry)
            THEN /\ attempt' = attempt + 1
                 /\ UNCHANGED <<pc, result, files>>
            ELSE /\ result' = PyNone
                 /\ pc' = after_run_step
                 /\ UNCHANGED <<attempt, files>>
    /\ UNCHANGED <<args, steps_to_run, step_index, step_id, behaviour, results,
                   success_count, files0, summary_file, warned, exit_code>>
    /\ UNCHANGED ledger_vars

\* run_pipeline, lines 248-254: record the stage, count it, or stop
run_pipeline_record ==
    /\ pc = "record"
    /\ results' = Append(results, [step |-> step_id, success |-> success_flag(result)])
    /\ step_index' = step_index + 1
    /\ IF result # PyNone
       THEN /\ success_count' = success_count + 1
            /\ pc' = "loop"
       ELSE /\ UNCHANGED success_count
            /\ pc' = CASE STOP_ON_ERROR = "undefined" -> "raised"
                       [] STOP_ON_ERROR = "true" -> "summary"
                       [] OTHER -> "loop"
    /\ behaviour' = NoBehaviour
    /\ attempt' = 0
    /\ calls' = 0
    /\ UNCHANGED <<args, steps_to_run, step_id, invoked, result,
                   files, files0, summary_file, warned, exit_code>>
    /\ UNCHANGED ledger_vars

\* the summary dict of lines 265-271 (timestamp and duration left out)
summary ==
    [steps_total |-> Len(steps_to_run), steps_success |-> success_count,
     results |-> results]

\* run_pipeline, lines 256-278, and main, lines 326 and 346-347
run_pipeline_end ==
    /\ \/ pc = "summary"
       \/ pc = "loop" /\ step_index >= Len(steps_to_run)
    /\ summary_file' = [j |-> "summary", summary |-> summary]
    /\ exit_code' = exit_status(summary.steps_success = summary.steps_total)
    /\ pc' = "exit"
    /\ UNCHANGED <<args, steps_to_run, step_index, step_id, attempt, behaviour, calls,
                   invoked, result, results, success_count, files, files0, warned>>
    /\ UNCHANGED ledger_vars

\* main, lines 319-320 and 346-347: single step, exit code from the result
main_step_return ==
    /\ pc = "main_step_return"
    /\ exit_code' = exit_status(result # PyNone)
    /\ pc' = "exit"
    /\ UNCHANGED <<args, steps_to_run, step_index, step_id, attempt, behaviour, calls,
                   invoked, result, results, success_count, files, files0, summary_file, warned>>
    /\ UNCHANGED ledger_vars

\* main, lines 341-347: an exception out of run_pipeline is logged, exit code 1
main_except ==
    /\ pc = "raised"
    /\ exit_code' = exit_status(FALSE)
    /\ pc' = "exit"
    /\ UNCHANGED <<args, steps_to_run, step_index, step_id, attempt, behaviour, calls,
                   invoked, result, results, success_count, files, files0, summary_file, warned>>
    /\ UNCHANGED ledger_vars

Next ==
    \/ main
    \/ run_pipeline_begin
    \/ run_pipeline_next
    \/ run_step_enter
    \/ run_step_attempt
    \/ run_pipeline_record
    \/ run_pipeline_end
    \/ main_step_return
    \/ main_except

Spec == Init /\ [][Next]_vars

(***************************************************************************)
(* The stages as they act on the spreadsheet                               *)
(***************************************************************************)
SpacedHeaders == <<"ID", "Idea", "Hashtag", "Caption", "Production",
                   "Environment_Prompt", "Status Publishing">>
CompactHeaders == <<"ID", "Idea", "Production", "Status_Publishing", "Final_Output",
                    "link-youtube">>
Layouts == {DefaultHeaders, SpacedHeaders, CompactHeaders}

\* a data row as the stages leave it: idea cells, the two statuses, the links
\* that go with the publishing status
RowOf(headers, id, production, publishing) ==
    TrimRow(Seq0(Len(headers), LAMBDA c :
        CASE upper(headers[c]) = "ID" -> id
          [] headers[c] = "Production" -> production
          [] headers[c] \in {"Status Publishing", "Status_Publishing"} -> publishing
          [] headers[c] = "Final_Output" ->
                IF lower(publishing) \in {"for publishing", "published"} THEN "drive0" ELSE ""
          [] headers[c] = "link-youtube" ->
                IF publishing = "published" THEN "yt0" ELSE ""
          [] OTHER -> idea_cell(headers[c])))

IdCells == {"1", "3", " 2", "x", ""}
StatusPairs == {<<"for production", "pending">>, <<"for production", "for publishing">>,
                <<"done", "published">>}
InitRows(headers) ==
    {RowOf(headers, id, st[1], st[2]) : id \in IdCells, st \in StatusPairs}
InitSheets ==
    {<<>>} \cup
    UNION {{<<h>> \o rows : rows \in UNION {[1..n -> InitRows(h)] : n \in 0..MaxInitRows}}
           : h \in Layouts}

LedgerInit ==
    /\ args = [mode |-> "usage", step |-> None, start |-> None, end |-> None,
               retry |-> 0, keep_temp |-> FALSE]
    /\ pc = "stages"
    /\ steps_to_run = <<>>
    /\ step_index = 0
    /\ step_id = None
    /\ attempt = 0
    /\ behaviour = NoBehaviour
    /\ calls = 0
    /\ invoked = <<>>
    /\ result = PyNone
    /\ results = <<>>
    /\ success_count = 0
    /\ files = LeftBy(0)
    /\ files0 = files
    /\ summary_file = Absent
    /\ warned = {}
    /\ exit_code = NotExited
    /\ sheet \in InitSheets
    /\ sheet0 = sheet
    /\ ledger = LedgerIdle

DriveLinks == {"drive1", "drive2"}
VideoIds == {"v1", "v2"}

\* the idea stage: process_idea_generation hands its k ideas to
\* save_ideas_to_sheets, which calls append_new_ideas
ideas_effect(k, f) ==
    \E done \in {append_new_ideas(sheet, k, f)} :
       /\ Len(sheet) + k <= MaxRows
       /\ sheet' = done.sheet
       /\ ledger' = [op |-> "append", k |-> k, ok |-> f = NoFault(AppendRequests),
                     ret |-> done.ret]

\* the composition stage: process_video_composition, having uploaded the
\* final video, calls update_video_link_in_sheets with its link
compose_effect(link, f) ==
    \E done \in {update_video_link_in_sheets(sheet, link, f)} :
       /\ sheet' = done.sheet
       /\ ledger' = [op |-> "compose", ok |-> f = NoFault(ComposeRequests),
                     ret |-> done.ret, row |-> done.row, link |-> link]

\* the publishing stage: process_youtube_publishing
publish_effect(video_id, f) ==
    \E done \in {process_youtube_publishing(sheet, video_id, PublishOk(f))} :
       /\ sheet' = done.sheet
       /\ ledger' = [op |-> "publish", ok |-> f = NoFault(PublishRequests),
                     ret |-> done.update_status_success, row |-> done.row,
                     uploaded |-> done.uploaded, idea_id |-> done.idea_id,
                     url |-> IF video_id = "" THEN "" ELSE youtube_url(video_id)]

ideas_stage ==
    /\ pc = "stages"
    /\ \E k \in 1..MaxIdeas, f \in AppendFaults : ideas_effect(k, f)
    /\ UNCHANGED sheet0
    /\ UNCHANGED runner_vars

LedgerNext ==
    \/ ideas_stage

SpecLedger == LedgerInit /\ [][LedgerNext]_vars

(***************************************************************************)
(* A full run ideas..publish over a one-row ledger in which every stage    *)
(* and every request a stage makes succeeds.  step_index counts the stages *)
(* completed; STEPS (main.py, lines 48-89) gives their order.              *)
(***************************************************************************)
FullRunIds == {"1", "3"}
FullRunSheets ==
    {<<h, RowOf(h, id, "for production", "pending")>> : h \in Layouts, id \in FullRunIds}

FullRunInit ==
    /\ args = [mode |-> "pipeline", step |-> None, start |-> None, end |-> None,
               retry |-> 1, keep_temp |-> TRUE]
    /\ pc = "full_run"
    /\ steps_to_run = STEPS
    /\ step_index = 0
    /\ step_id = None
    /\ attempt = 0
    /\ behaviour = NoBehaviour
    /\ calls = 0
    /\ invoked = <<>>
    /\ result = PyNone
    /\ results = <<>>
    /\ success_count = 0
    /\ files = LeftBy(0)
    /\ files0 = files
    /\ summary_file = Absent
    /\ warned = {}
    /\ exit_code = NotExited
    /\ sheet \in FullRunSheets
    /\ sheet0 = sheet
    /\ ledger = LedgerIdle

stage_done(s) ==
    /\ pc = "full_run"
    /\ step_index < Len(steps_to_run)
    /\ steps_to_run[step_index + 1] = s
    /\ step_index' = step_index + 1
    /\ invoked' = Append(invoked, s)
    /\ UNCHANGED <<args, pc, steps_to_run, step_id, attempt, behaviour, calls, result,
                   results, success_count, files, files0, summary_file, warned,
                   exit_code, sheet0>>

\* IdeaGenerator.process_idea_generation
run_ideas ==
    /\ stage_done("ideas")
    /\ \E k \in 1..MaxIdeas : ideas_effect(k, NoFault(AppendRequests))

\* scenes, prompts, images, videos and audio read the ledger and write files only
run_media ==
    /\ \E s \in {"scenes", "prompts", "images", "videos", "audio"} : stage_done(s)
    /\ ledger' = [op |-> "media"]
    /\ UNCHANGED sheet

\* VideoComposer.process_video_composition
run_compose ==
    /\ stage_done("compose")
    /\ \E link \in DriveLinks : compose_effect(link, NoFault(ComposeRequests))

\* YouTubePublisher.process_youtube_publishing
run_publish ==
    /\ stage_done("publish")
    /\ \E video_id \in VideoIds : publish_effect(video_id, NoFault(PublishRequests))

FullRunNext ==
    \/ run_ideas
    \/ run_media
    \/ run_compose
    \/ run_publish

SpecFullRun == FullRunInit /\ [][FullRunNext]_vars

(***************************************************************************)
(* Composition and publishing runs, in any order and number up to          *)
(* MaxStageRuns, over a ledger of two ideas as the idea stage leaves them; *)
(* any one request of a run may fail.  step_index counts the runs.         *)
(***************************************************************************)
MaxStageRuns == 4

PublishSheets ==
    {<<h, RowOf(h, ids[1], "for production", "pending"),
          RowOf(h, ids[2], "for production", "pending")>> :
        h \in Layouts, ids \in {<<"1", "2">>, <<"3", "1">>}}

PublishInit ==
    /\ args = [mode |-> "usage", step |-> None, start |-> None, end |-> None,
               retry |-> 0, keep_temp |-> FALSE]
    /\ pc = "publishing"
    /\ steps_to_run = <<>>
    /\ step_index = 0
    /\ step_id = None
    /\ attempt = 0
    /\ behaviour = NoBehaviour
    /\ calls = 0
    /\ invoked = <<>>
    /\ result = PyNone
    /\ results = <<>>
    /\ success_count = 0
    /\ files = LeftBy(0)
    /\ files0 = files
    /\ summary_file = Absent
    /\ warned = {}
    /\ exit_code = NotExited
    /\ sheet \in PublishSheets
    /\ sheet0 = sheet
    /\ ledger = LedgerIdle

stage_run ==
    /\ pc = "publishing"
    /\ step_index < MaxStageRuns
    /\ step_index' = step_index + 1
    /\ UNCHANGED <<args, pc, steps_to_run, step_id, attempt, behaviour, calls,
                   result, results, success_count, files0, summary_file, warned,
                   exit_code, sheet0>>

\* VideoComposer.process_video_composition, lines 1356-1400: the final video
\* is on Drive, the ledger is updated and composition_result.json, naming
\* the video, is written
compose_stage ==
    /\ stage_run
    /\ \E link \in DriveLinks, f \in FaultChoices(ComposeRequests) : compose_effect(link, f)
    /\ files' = [files EXCEPT !["compose"] = json_dump(SuccessDict)]
    /\ UNCHANGED invoked

\* get_video_for_publishing, lines 254-306: the video ids an upload can
\* return; there is a video to upload only while the composition result (or
\* its copy on Drive) exists
upload_results(fs) == IF fs["compose"] # Absent THEN VideoIds \cup {""} ELSE {""}

\* YouTubePublisher.process_youtube_publishing; the upload returns a video id,
\* or none.  After an upload the videos on Drive and the files of TEMP_DIR are
\* deleted (lines 809-814).  invoked lists the rows for which
\* upload_video_to_youtube (line 757) has returned a video id.
publish_stage ==
    /\ stage_run
    /\ \E video_id \in upload_results(files), f \in FaultChoices(PublishRequests) :
          publish_effect(video_id, f)
    /\ files' = IF ledger'.uploaded THEN clean_temp_directory(files) ELSE files
    /\ invoked' = IF ledger'.uploaded THEN Append(invoked, ledger'.row) ELSE invoked

PublishNext ==
    \/ compose_stage
    \/ publish_stage

SpecPublish == PublishInit /\ [][PublishNext]_vars

(***************************************************************************)
(* Later runs over a ledger whose one idea has been published: idea,       *)
(* composition and publishing runs in any order, up to MaxLaterRuns; any   *)
(* one request of an idea or composition run and up to MaxPublishFaults    *)
(* requests of a publishing run may fail.                                  *)
(***************************************************************************)
MaxLaterRuns == 3
MaxPublishFaults == 2

PublishedSheets == {<<h, RowOf(h, "1", "done", "published")>> : h \in Layouts}

LaterRunsInit ==
    /\ args = [mode |-> "usage", step |-> None, start |-> None, end |-> None,
               retry |-> 0, keep_temp |-> FALSE]
    /\ pc = "later_runs"
    /\ steps_to_run = <<>>
    /\ step_index = 0
    /\ step_id = None
    /\ attempt = 0
    /\ behaviour = NoBehaviour
    /\ calls = 0
    /\ invoked = <<>>
    /\ result = PyNone
    /\ results = <<>>
    /\ success_count = 0
    /\ files = LeftBy(0)
    /\ files0 = files
    /\ summary_file = Absent
    /\ warned = {}
    /\ exit_code = NotExited
    /\ sheet \in PublishedSheets
    /\ sheet0 = sheet
    /\ ledger = LedgerIdle

later_run ==
    /\ pc = "later_runs"
    /\ step_index < MaxLaterRuns
    /\ step_index' = step_index + 1
    /\ UNCHANGED <<args, pc, steps_to_run, step_id, attempt, behaviour, calls,
                   result, results, success_count, files0, summary_file, warned,
                   exit_code, sheet0>>

\* IdeaGenerator.process_idea_generation
later_ideas ==
    /\ later_run
    /\ \E k \in 1..MaxIdeas, f \in AppendFaults : ideas_effect(k, f)
    /\ UNCHANGED <<files, invoked>>

\* VideoComposer.process_video_composition
later_compose ==
    /\ later_run
    /\ \E link \in DriveLinks, f \in FaultChoices(ComposeRequests) : compose_effect(link, f)
    /\ files' = [files EXCEPT !["compose"] = json_dump(SuccessDict)]
    /\ UNCHANGED invoked

\* YouTubePublisher.process_youtube_publishing, up to MaxPublishFaults of its
\* requests failing
later_publish ==
    /\ later_run
    /\ \E video_id \in upload_results(files),
          f \in FaultsUpTo(PublishRequests, MaxPublishFaults) :
          publish_effect(video_id, f)
    /\ files' = IF ledger'.uploaded THEN clean_temp_directory(files) ELSE files
    /\ invoked' = IF ledger'.uploaded THEN Append(invoked, ledger'.row) ELSE invoked

LaterRunsNext ==
    \/ later_ideas
    \/ later_compose
    \/ later_publish

SpecLaterRuns == LaterRunsInit /\ [][LaterRunsNext]_vars

(***************************************************************************)
(* The operations of GoogleSheetsManager (and update_production_status of  *)
(* the publisher) called one at a time, up to MaxOps calls, on ledgers     *)
(* that may be empty or lack the ID, status or Production column; any one  *)
(* request of a call may fail.  ledger records the call and what it        *)
(* returned.                                                               *)
(***************************************************************************)
MaxOps == 2

BareHeaders == <<"ID", "Idea">>
NoIdHeaders == <<"Idea", "Production", "Status_Publishing">>
OpsLayouts == {SpacedHeaders, CompactHeaders, BareHeaders, NoIdHeaders}
OpsRows(h) ==
    {RowOf(h, id, "for production", st) : id \in {"1", "2"},
                                          st \in {"pending", "for publishing"}}
OpsSheets ==
    {<<>>} \cup
    UNION {{<<h>> \o rows : rows \in UNION {[1..n -> OpsRows(h)] : n \in 0..MaxInitRows}}
           : h \in OpsLayouts}
IdeaIds == {"2", "9"}

OpsInit ==
    /\ args = [mode |-> "usage", step |-> None, start |-> None, end |-> None,
               retry |-> 0, keep_temp |-> FALSE]
    /\ pc = "operations"
    /\ steps_to_run = <<>>
    /\ step_index = 0
    /\ step_id = None
    /\ attempt = 0
    /\ behaviour = NoBehaviour
    /\ calls = 0
    /\ invoked = <<>>
    /\ result = PyNone
    /\ results = <<>>
    /\ success_count = 0
    /\ files = LeftBy(0)
    /\ files0 = files
    /\ summary_file = Absent
    /\ warned = {}
    /\ exit_code = NotExited
    /\ sheet \in OpsSheets
    /\ sheet0 = sheet
    /\ ledger = LedgerIdle

operation_called ==
    /\ pc = "operations"
    /\ step_index < MaxOps
    /\ step_index' = step_index + 1
    /\ UNCHANGED <<args, pc, steps_to_run, step_id, attempt, behaviour, calls, invoked,
                   result, results, success_count, files, files0, summary_file, warned,
                   exit_code, sheet0>>

call_get_ideas_for_production ==
    /\ operation_called
    /\ \E ok \in BOOLEAN :
          ledger' = [op |-> "get_ideas_for_production", read_ok |-> ok,
                     ret |-> get_ideas_for_production(get_values(sheet, ok))]
    /\ UNCHANGED sheet

call_get_ideas_for_publishing ==
    /\ operation_called
    /\ \E ok \in BOOLEAN :
          ledger' = [op |-> "get_ideas_for_publishing", read_ok |-> ok,
                     ret |-> get_ideas_for_publishing(get_values(sheet, ok))]
    /\ UNCHANGED sheet

call_get_next_available_id ==
    /\ operation_called
    /\ \E ok \in BOOLEAN :
          ledger' = [op |-> "get_next_available_id", read_ok |-> ok,
                     ret |-> get_next_available_id(get_values(sheet, ok))]
    /\ UNCHANGED sheet

call_append_new_ideas ==
    /\ operation_called
    /\ \E k \in 0..MaxIdeas, f \in AppendFaults :
         \E done \in {append_new_ideas(sheet, k, f)} :
            /\ Len(sheet) + k <= MaxRows
            /\ sheet' = done.sheet
            /\ ledger' = [op |-> "append_new_ideas", read_ok |-> f["read1"], k |-> k,
                          append_ok |-> f["append"], ret |-> done.ret]

call_update_publishing_status ==
    /\ operation_called
    /\ \E idea_id \in IdeaIds, ok \in FaultChoices({"read", "row"}) :
         \E done \in {update_publishing_status(sheet, idea_id, "published", ok)} :
            /\ sheet' = done.sheet
            /\ ledger' = [op |-> "update_publishing_status", read_ok |-> ok["read"],
                          idea_id |-> idea_id, ret |-> done.ret]

call_update_video_link ==
    /\ operation_called
    /\ \E idea_id \in IdeaIds, ok \in FaultChoices({"read", "header", "row1", "row2"}) :
         \E done \in {update_video_link(sheet, idea_id, "yt1", ok)} :
            /\ sheet' = done.sheet
            /\ ledger' = [op |-> "update_video_link", read_ok |-> ok["read"],
                          ok |-> \A n \in DOMAIN ok : ok[n],
                          idea_id |-> idea_id, ret |-> done.ret]

call_publisher_update_video_link ==
    /\ operation_called
    /\ \E idea_id \in IdeaIds, ok \in FaultChoices({"read", "header", "cell"}) :
         \E done \in {publisher_update_video_link(sheet, idea_id, "yt1", ok)} :
            /\ sheet' = done.sheet
            /\ ledger' = [op |-> "publisher_update_video_link", read_ok |-> ok["read"],
                          ok |-> \A n \in DOMAIN ok : ok[n],
                          idea_id |-> idea_id, ret |-> done.ret]

call_update_production_status ==
    /\ operation_called
    /\ \E idea_id \in IdeaIds, ok \in FaultChoices({"read", "cell"}) :
         \E done \in {update_production_status(sheet, idea_id, "done", ok)} :
            /\ sheet' = done.sheet
            /\ ledger' = [op |-> "update_production_status", read_ok |-> ok["read"],
                          idea_id |-> idea_id, ret |-> done.ret]

OpsNext ==
    \/ call_get_ideas_for_production
    \/ call_get_ideas_for_publishing
    \/ call_get_next_available_id
    \/ call_append_new_ideas
    \/ call_update_publishing_status
    \/ call_update_video_link
    \/ call_publisher_update_video_link
    \/ call_update_production_status

SpecOps == OpsInit /\ [][OpsNext]_vars

(***************************************************************************)
(* The two status reads called on ledgers whose status cells come in       *)
(* several letter casings.                                                 *)
(***************************************************************************)
ProductionCells == {"for production", "For Production", "FOR PRODUCTION", "done"}
PublishingCells == {"for publishing", "For Publishing", "FOR PUBLISHING", "pending"}
CasedRows(h, id) ==
    {RowOf(h, id, production, publishing) :
        production \in ProductionCells, publishing \in PublishingCells}
CasedSheets ==
    UNION {{<<h, row1>> : row1 \in CasedRows(h, "1")} \cup
           {<<h, row1, row2>> : row1 \in CasedRows(h, "1"), row2 \in CasedRows(h, "2")}
           : h \in Layouts}

ReadsInit ==
    /\ args = [mode |-> "usage", step |-> None, start |-> None, end |-> None,
               retry |-> 0, keep_temp |-> FALSE]
    /\ pc = "operations"
    /\ steps_to_run = <<>>
    /\ step_index = 0
    /\ step_id = None
    /\ attempt = 0
    /\ behaviour = NoBehaviour
    /\ calls = 0
    /\ invoked = <<>>
    /\ result = PyNone
    /\ results = <<>>
    /\ success_count = 0
    /\ files = LeftBy(0)
    /\ files0 = files
    /\ summary_file = Absent
    /\ warned = {}
    /\ exit_code = NotExited
    /\ sheet \in CasedSheets
    /\ sheet0 = sheet
    /\ ledger = LedgerIdle

ReadsNext ==
    \/ call_get_ideas_for_production
    \/ call_get_ideas_for_publishing

SpecReads == ReadsInit /\ [][ReadsNext]_vars

(***************************************************************************)
(* Properties of the runner, checked under Spec                            *)
(***************************************************************************)
Returned == pc \in {"record", "main_step_return"}

\* the stage function raises on its first N-1 invocations and returns a
\* non-None value on the N-th, 1 <= N <= retry_count
RetryThenSuccess ==
    /\ Returned
    /\ args.retry >= 1
    /\ behaviour.fails < args.retry
    /\ behaviour.val # PyNone

\* the stage function raises on every invocation run_step makes
RaisesEveryTime ==
    /\ Returned
    /\ args.retry >= 1
    /\ behaviour.fails >= args.retry

\* C1: when a stage's function raises N-1 times and then returns a non-None
\* result (1 <= N <= retry_count), run_step has invoked it exactly N times and
\* returns that result, and run_pipeline records the stage as successful.
C1_RetryThenSuccess ==
    /\ [](RetryThenSuccess => calls = behaviour.fails + 1 /\ result = behaviour.val)
    /\ [][(RetryThenSuccess /\ pc = "record") =>
            /\ results' = Append(results, [step |-> step_id, success |-> TRUE])
            /\ success_count' = success_count + 1]_vars

C1_Witness ==
    /\ RetryThenSuccess
    /\ pc = "record"
    /\ behaviour.fails >= 1
    /\ calls = behaviour.fails + 1
    /\ result = behaviour.val

\* C2: when a stage's function raises on every invocation, it is invoked
\* exactly retry_count times, run_step returns None, and the results of the run
\* get a record with success = false for the stage.
C2_RetryExhausted ==
    /\ [](RaisesEveryTime => calls = args.retry /\ result = PyNone)
    /\ [][(RaisesEveryTime /\ pc = "record") =>
            /\ results' = Append(results, [step |-> step_id, success |-> FALSE])
            /\ success_count' = success_count]_vars

C2_Witness ==
    /\ RaisesEveryTime
    /\ pc = "record"
    /\ args.retry = MaxRetry
    /\ calls = args.retry
    /\ result = PyNone

\* C3: every run_pipeline invocation ends having written the run summary,
\* which holds a success flag for each stage invoked and the count of
\* successful stages.
C3_SummaryAlwaysWritten ==
    (args.mode = "pipeline" /\ pc = "exit") =>
        /\ summary_file # Absent
        /\ summary_file.summary.steps_success = success_count
        /\ \A i \in 1..Len(invoked) :
              \E k \in 1..Len(summary_file.summary.results) :
                  summary_file.summary.results[k].step = invoked[i]

\* run_pipeline called with start_step = end_step = a stage other than the first
SingleStageWindow ==
    /\ args.mode = "pipeline"
    /\ args.start \in StepIds \ {STEPS[1]}
    /\ args.end = args.start

OnlyThatStage == \A i \in 1..Len(invoked) : invoked[i] = args.start
NoArtifactRemoved == \A s \in StepIds : files0[s] # Absent => files[s] # Absent

\* C4 as stated: with start_step = end_step = k, k not the first stage,
\* exactly the function of stage k is invoked and no artifact file that
\* existed before the run is removed.
C4_SingleStageWindow ==
    SingleStageWindow =>
        /\ OnlyThatStage
        /\ pc = "exit" => invoked = <<args.start>>
        /\ NoArtifactRemoved

\* C4 (amended): with start_step = end_step = k, k not the first stage, no
\* stage other than k is invoked, k is invoked when retry_count >= 1, and an
\* artifact that existed before the run is removed only by the publish stage
\* after a successful upload.
C4_SingleStageWindowAmended ==
    SingleStageWindow =>
        /\ OnlyThatStage
        /\ (pc = "exit" /\ args.retry >= 1) => invoked = <<args.start>>
        /\ NoArtifactRemoved \/ (args.start = "publish" /\ result = SuccessDict)

C4_Witness ==
    /\ SingleStageWindow
    /\ pc = "exit"
    /\ args.start = "videos"
    /\ invoked = <<"videos">>
    /\ files0 = LeftBy(4)
    /\ NoArtifactRemoved
    /\ files["videos"] # Absent

\* the stages a window asks for: positions start..end of the catalogue; a
\* range given backwards is read as run_pipeline reads it
RequestedStages ==
    LET first == IF args.start = None THEN 1 ELSE index(STEPS, args.start)
        last == IF args.end = None THEN Len(STEPS) ELSE index(STEPS, args.end)
    IN IF first <= last THEN {STEPS[i] : i \in first..last}
       ELSE {steps_to_run[i] : i \in 1..Len(steps_to_run)}

RecordedSuccessful(s) ==
    \E i \in 1..Len(results) : results[i] = [step |-> s, success |-> TRUE]

AllRequestedSuccessful ==
    CASE args.mode = "step" -> result # PyNone
      [] args.mode = "pipeline" -> \A s \in RequestedStages : RecordedSuccessful(s)
      [] OTHER -> TRUE

\* C5: the process exit code is 0 if and only if every stage of the
\* requested window (or the single requested step) succeeded, and 1 in every
\* other outcome, a run that stops early included.
C5_ExitCode ==
    pc = "exit" => /\ exit_code \in {0, 1}
                   /\ exit_code = 0 <=> AllRequestedSuccessful

C5_Witness ==
    /\ pc = "exit"
    /\ args.mode = "pipeline"
    /\ exit_code = 1
    /\ Len(results) >= 2
    /\ Len(results) < Len(steps_to_run)
    /\ results[1].success

\* C8: after run_step(X) returns a JSON-representable list or dict r (an
\* empty list, an empty dict and nested dicts included), the artifact stored
\* under X's name reads back equal to r.
C8_ArtifactRoundTrip ==
    (Returned /\ calls >= 1 /\ IsDictOrList(result) /\ JSONRepresentable(result)) =>
        /\ files[step_id] # Absent
        /\ json_load(files[step_id]) = result

\* C12: no exception leaves run_step or run_pipeline, whatever the stage
\* functions do, for any retry_count and any valid start and end.
C12_NoExceptionEscapes == pc # "raised"

\* C15: after a stage is recorded as failed, the run stops when the
\* stop-on-error flag is enabled and goes on to the next stage of the window
\* when it is disabled.
C15_StopOnErrorFlag ==
    [][(pc = "record" /\ result = PyNone) =>
          \/ STOP_ON_ERROR = "true" /\ pc' = "summary"
          \/ STOP_ON_ERROR = "false" /\ pc' = "loop"]_vars

\* run_pipeline has resolved its window and no stage has been handed to
\* run_step yet
BeforeFirstStage == args.mode = "pipeline" /\ pc = "loop" /\ step_index = 0

\* C16: with clean_temp true and a window starting at the first stage
\* (start_step 'ideas' or omitted) every artifact file is removed before the
\* first stage is invoked; otherwise the runner removes nothing.
C16_CleanBeforeFreshRun ==
    BeforeFirstStage =>
        IF ~args.keep_temp /\ args.start \in {None, STEPS[1]}
        THEN \A s \in StepIds : files[s] = Absent
        ELSE files = files0

C18_NoneIsFailure ==
    [][pc = "record" =>
          /\ results' = Append(results, [step |-> step_id, success |-> result # PyNone])
          /\ success_count' = success_count + (IF result # PyNone THEN 1 ELSE 0)
          /\ result \in {EmptyList, EmptyDict, FailDict} =>
                results'[Len(results')].success /\ success_count' = success_count + 1]_vars

C18_Witness ==
    /\ args.mode = "pipeline"
    /\ pc = "loop"
    /\ Len(results) >= 2
    /\ result = FailDict
    /\ results[Len(results)] = [step |-> step_id, success |-> TRUE]
    /\ \E i \in 1..Len(results) : results[i] = [step |-> "audio", success |-> TRUE]
    /\ success_count = Len(results)

\* the stages invoked so far lie in the window and follow the catalogue order
InCatalogueOrder ==
    /\ \A i \in 1..Len(invoked) : contains(steps_to_run, invoked[i])
    /\ \A i, k \in 1..Len(invoked) :
          i < k => index(STEPS, invoked[i]) < index(STEPS, invoked[k])

\* C19: the stages of a run are invoked one at a time in catalogue order
\* restricted to the window: every invocation is of the stage the run has
\* reached, the run never goes back to an earlier stage, and no stage outside
\* the window is invoked.
C19_SequentialOrder ==
    /\ [](args.mode = "pipeline" => InCatalogueOrder)
    /\ [][args.mode = "pipeline" =>
            /\ step_index' >= step_index
            /\ calls' > calls =>
                  /\ step_id = steps_to_run[step_index + 1]
                  /\ step_id = STEPS[index(STEPS, steps_to_run[1]) + step_index]]_vars

C19_Witness ==
    /\ args.mode = "pipeline"
    /\ pc = "exit"
    /\ exit_code = 0
    /\ args.retry = MaxRetry
    /\ invoked = <<"images", "videos", "audio">>

\* an artifact file that exists is gone after the step
Removes(s) == files[s] # Absent /\ files'[s] = Absent

\* the clear step of run_pipeline
RunnerClears == pc = "run_pipeline" /\ ~args.keep_temp /\ args.start = STEPS[1]

\* C24: once an artifact file has been written no stage's execution deletes
\* it; artifacts disappear only through the runner's clear step at the start
\* of a run that begins at the first stage.
C24_AppendOnlyStore ==
    [][\A s \in StepIds : Removes(s) => RunnerClears]_vars

\* C24 (amended): an artifact file disappears only through the runner's clear
\* step at the start of a run whose start_step is 'ideas', or when the
\* publishing stage, having uploaded, empties the directory; no other stage's
\* execution deletes one.
C24_AppendOnlyStoreAmended ==
    [][\A s \in StepIds :
          Removes(s) =>
             \/ RunnerClears
             \/ pc = "attempt" /\ step_id = "publish" /\ result' = SuccessDict]_vars

C24_Witness ==
    /\ args.mode = "pipeline"
    /\ args.start = "audio"
    /\ pc = "record"
    /\ step_id = "publish"
    /\ result = SuccessDict
    /\ invoked = <<"audio", "compose", "publish">>
    /\ files0["ideas"] # Absent
    /\ files["ideas"] = Absent
    /\ files["compose"] = Absent
    /\ files["publish"] # Absent

\* the catalogue positions a start/end pair names
FirstPosition == IF args.start = None THEN 1 ELSE index(STEPS, args.start)
LastPosition == IF args.end = None THEN Len(STEPS) ELSE index(STEPS, args.end)

\* C30: for every pair of stage names start_step and end_step the stages
\* run_pipeline invokes are those whose catalogue position lies between the
\* two, inclusive (all of them once a run with retry_count >= 1 has ended
\* normally); when end_step precedes start_step no stage after end_step is
\* invoked.
C30_WindowBetweenStartAndEnd ==
    args.mode = "pipeline" =>
        /\ \A i \in 1..Len(invoked) :
              /\ FirstPosition <= index(STEPS, invoked[i])
              /\ index(STEPS, invoked[i]) <= LastPosition
        /\ (pc = "exit" /\ exit_code = 0 /\ args.retry >= 1) =>
              \A p \in FirstPosition..LastPosition : contains(invoked, STEPS[p])

(***************************************************************************)
(* Properties of the ledger, checked under SpecLedger                      *)
(***************************************************************************)
\* the ID column of a ledger: the first header reading "ID", column 1 of a
\* ledger that is still empty
IdColumn(sh) ==
    IF Len(sh) = 0 THEN 1 ELSE FirstHeader(sh[1], LAMBDA h : upper(h) = "ID")

NumericIds(sh) ==
    {int(strip(Cell(sh[r], IdColumn(sh)))) :
        r \in {q \in 2..Len(sh) : isdigit(strip(Cell(sh[q], IdColumn(sh))))}}

LargestNumericId(sh) == IF NumericIds(sh) = {} THEN 0 ELSE Max(NumericIds(sh))

IdsValid(sh) ==
    /\ Len(sh) >= 1
    /\ IdColumn(sh) # 0
    /\ \A r \in 2..Len(sh) :
          \E n \in 1..Len(Numerals) : Cell(sh[r], IdColumn(sh)) = Numerals[n]
    /\ \A r1, r2 \in 2..Len(sh) :
          r1 # r2 => Cell(sh[r1], IdColumn(sh)) # Cell(sh[r2], IdColumn(sh))

\* C7: starting from a ledger whose IDs are pairwise distinct positive
\* integers, after any sequence of append_new_ideas calls, whichever of their
\* reads and writes fail, every ID is a positive integer and no two rows share
\* an ID.
C7_IdsStayUnique == IdsValid(sheet0) => IdsValid(sheet)

\* a ledger without data rows: no row at all, or the header row alone
ZeroDataRows(sh) == Len(sh) <= 1

\* the column append_new_ideas numbers: the ID column, column 1 when it had
\* to add one
NumberedColumn(sh) == IF IdColumn(sh) = 0 THEN 1 ELSE IdColumn(sh)

\* C14: on a ledger with zero data rows get_ideas_for_production and
\* get_ideas_for_publishing return no idea and get_next_available_id returns
\* 1, whether or not the read succeeds; append_new_ideas on such a ledger,
\* all of its requests succeeding, gives its k ideas the IDs 1, ..., k.
C14_EmptyLedger ==
    /\ [](ZeroDataRows(sheet) =>
            \A ok \in BOOLEAN :
               /\ get_ideas_for_production(get_values(sheet, ok)) = {}
               /\ get_ideas_for_publishing(get_values(sheet, ok)) = {}
               /\ get_next_available_id(get_values(sheet, ok)) = 1)
    /\ [][(ZeroDataRows(sheet) /\ ledger'.op = "append" /\ ledger'.ok) =>
            /\ ledger'.ret
            /\ Len(sheet') = Len(sheet) + ledger'.k
            /\ \A i \in 1..ledger'.k :
                  Cell(sheet'[Len(sheet) + i], NumberedColumn(sheet)) = Numerals[i]]_vars

C14_Witness ==
    /\ sheet0 = <<SpacedHeaders>>
    /\ ledger.op = "append"
    /\ ledger.ok
    /\ ledger.k = 2
    /\ Len(sheet) = 3
    /\ Cell(sheet[2], 1) = "1"
    /\ Cell(sheet[3], 1) = "2"

(***************************************************************************)
(* Properties of the full run, checked under SpecFullRun                   *)
(***************************************************************************)
Column(sh, name) == FirstHeader(sh[1], LAMBDA h : h = name)
StatusColumn(sh) == FirstHeader(sh[1], IsStatusHeader)
YouTubeColumn(sh) == FirstHeader(sh[1], LAMBDA h : lower(h) = "link-youtube")
StatusOf(sh, r) == Cell(sh[r], StatusColumn(sh))
ProductionOf(sh, r) == Cell(sh[r], Column(sh, "Production"))
FinalOutputOf(sh, r) == Cell(sh[r], Column(sh, "Final_Output"))
YouTubeLinkOf(sh, r) == Cell(sh[r], YouTubeColumn(sh))
PublishingStatus(r) == Cell(sheet[r], StatusColumn(sheet))
ProductionStatus(r) == Cell(sheet[r], Column(sheet, "Production"))

\* C9: in a full run over a ledger with one row ('for production',
\* 'pending') in which every stage and every request succeeds, the row's
\* publishing status is 'pending' until compose makes it 'for publishing' and
\* publish makes it 'published', its production status is 'for production'
\* until publish makes it 'done', and neither column ever holds another value.
C9_StatusTransitions ==
    pc = "full_run" =>
        /\ step_index <= 6 => PublishingStatus(2) = "pending"
        /\ step_index = 7 => PublishingStatus(2) = "for publishing"
        /\ step_index = 8 => PublishingStatus(2) = "published"
        /\ step_index <= 7 => ProductionStatus(2) = "for production"
        /\ step_index = 8 => ProductionStatus(2) = "done"
        /\ \A r \in 2..Len(sheet) :
              /\ PublishingStatus(r) \in {"pending", "for publishing", "published"}
              /\ ProductionStatus(r) \in {"for production", "done"}

C9_Witness ==
    /\ pc = "full_run"
    /\ step_index = 8
    /\ ledger.op = "publish"
    /\ ledger.uploaded
    /\ PublishingStatus(2) = "published"
    /\ ProductionStatus(2) = "done"

\* C10: after compose and then publish have both succeeded for a row, the row
\* holds a non-empty final-video link and a non-empty YouTube link at the same
\* time, each under its own header.
C10_BothLinksKept ==
    (pc = "full_run" /\ step_index = 8) =>
        /\ Column(sheet, "Final_Output") # 0
        /\ Column(sheet, "link-youtube") # 0
        /\ Cell(sheet[2], Column(sheet, "Final_Output")) \in DriveLinks
        /\ Cell(sheet[2], Column(sheet, "link-youtube")) = ledger.url

(***************************************************************************)
(* Properties of the publishing stage, checked under SpecPublish           *)
(***************************************************************************)
ForPublishing(sh) == {r \in 2..Len(sh) : StatusOf(sh, r) = "for publishing"}
DistinctIds(sh) ==
    \A r1, r2 \in 2..Len(sh) :
        r1 # r2 => strip(Cell(sh[r1], IdColumn(sh))) # strip(Cell(sh[r2], IdColumn(sh)))

\* a publishing run has just uploaded a video with every ledger request
\* succeeding
Published == ledger'.op = "publish" /\ ledger'.ok /\ ledger'.uploaded

\* C11: when two or more rows with distinct IDs are 'for publishing', one
\* run of the publishing stage whose upload succeeds turns the first of them
\* in row order, and no other row, to 'published', and leaves the publishing
\* status, production status and both links of every other row as they were.
C11_PublishesOneRow ==
    [][(Published /\ Cardinality(ForPublishing(sheet)) >= 2 /\ DistinctIds(sheet)) =>
          /\ Len(sheet') = Len(sheet)
          /\ StatusOf(sheet', Min(ForPublishing(sheet))) = "published"
          /\ \A r \in 2..Len(sheet) :
                r # Min(ForPublishing(sheet)) =>
                   /\ StatusOf(sheet', r) = StatusOf(sheet, r)
                   /\ ProductionOf(sheet', r) = ProductionOf(sheet, r)
                   /\ FinalOutputOf(sheet', r) = FinalOutputOf(sheet, r)
                   /\ YouTubeLinkOf(sheet', r) = YouTubeLinkOf(sheet, r)]_vars

C11_Witness ==
    /\ ledger.op = "publish"
    /\ ledger.ok
    /\ ledger.uploaded
    /\ ledger.row = 2
    /\ Len(sheet) = 3
    /\ StatusOf(sheet, 2) = "published"
    /\ StatusOf(sheet, 3) = "for publishing"
    /\ FinalOutputOf(sheet, 3) # ""
    /\ YouTubeLinkOf(sheet, 2) = ledger.url
    /\ YouTubeLinkOf(sheet, 3) = ""

\* C25: across any sequence of publishing runs, whichever ledger requests
\* fail, no row is uploaded twice: a row for which an upload has succeeded
\* is not selected and uploaded again by a later run.
C25_UploadedAtMostOnce ==
    \A i, j \in 1..Len(invoked) : i # j => invoked[i] # invoked[j]

\* C26: in every ledger state the row the composition stage would mark 'for
\* publishing' is, by ID, the row the scene-sequencing stage selects as the
\* idea in production.
C26_ComposeMarksSelectedIdea ==
    \A marked \in {update_video_link_in_sheets(sheet, "drive1",
                                                NoFault(ComposeRequests)).row},
       selected \in {selected_idea(get_values(sheet, TRUE))} :
        marked # 0 =>
            /\ selected # 0
            /\ Cell(sheet[marked], IdColumn(sheet)) = Cell(sheet[selected], IdColumn(sheet))

\* C29: 'published' is terminal: once a row's publishing status is
\* 'published', no later idea, composition or publishing run, the fallback
\* link update included, changes that row's publishing status.
C29_PublishedIsTerminal ==
    [][\A r \in 2..Len(sheet) :
          StatusOf(sheet, r) = "published" =>
             Len(sheet') >= r /\ StatusOf(sheet', r) = "published"]_vars

\* the YouTube link of a row: under "link-youtube", or under "VIDEO_URL" where
\* the fallback of update_idea_status wrote it
HasYouTubeLink(sh, r) ==
    YouTubeLinkOf(sh, r) # "" \/ Cell(sh[r], Column(sh, "VIDEO_URL")) # ""

\* C20: in every ledger state a row whose production status is 'done' is
\* 'published' and has a YouTube link: the three writes of a publishing run
\* take effect together or not at all, whichever requests fail.
C20_PublishWritesAtomic ==
    \A r \in 2..Len(sheet) :
        ProductionOf(sheet, r) = "done" =>
            StatusOf(sheet, r) = "published" /\ HasYouTubeLink(sheet, r)

(***************************************************************************)
(* Properties of the ledger operations, checked under SpecOps              *)
(***************************************************************************)
\* the read of the call just made failed, or there is no row at all
NothingRead == ~ledger'.read_ok \/ Len(sheet) = 0

\* no data row carries the ID the call names in the ID column (the first
\* column where no header reads ID)
RowUnresolved ==
    \/ Len(sheet) < 2
    \/ \A r \in 2..Len(sheet) :
          strip(Cell(sheet[r], NumberedColumn(sheet))) # strip(ledger'.idea_id)

\* the column the call writes is not among the headers
ColumnUnresolved ==
    \/ Len(sheet) = 0
    \/ ledger'.op = "update_publishing_status" /\ StatusColumn(sheet) = 0
    \/ ledger'.op = "update_production_status" /\ Column(sheet, "Production") = 0

\* what the reads and the three updates return when there is nothing to
\* work on
ReadsAndUpdatesFailSoft ==
    /\ (ledger'.op \in {"get_ideas_for_production", "get_ideas_for_publishing"}
          /\ NothingRead) => ledger'.ret = {}
    /\ (ledger'.op = "get_next_available_id" /\ NothingRead) => ledger'.ret = 1
    /\ (ledger'.op \in {"update_publishing_status", "update_video_link",
                         "update_production_status"}
          /\ (NothingRead \/ RowUnresolved \/ ColumnUnresolved)) => ledger'.ret = FALSE

\* C13: no ledger operation raises; when the read fails, the sheet is empty
\* or the row or column cannot be resolved, the status reads return an empty
\* list, get_next_available_id returns 1, and append_new_ideas,
\* update_publishing_status, update_video_link and update_production_status
\* return False.
C13_OperationsFailSoft ==
    [][/\ ReadsAndUpdatesFailSoft
       /\ (ledger'.op = "append_new_ideas" /\ NothingRead) => ledger'.ret = FALSE]_vars

\* C13 as the code has it: the reads and the three updates as above, while
\* append_new_ideas returns False exactly when it is given no idea or its
\* append request fails; after a failed read or on an empty sheet it appends
\* under the default headers and returns True.
C13_OperationsFailSoftAmended ==
    [][/\ ReadsAndUpdatesFailSoft
       /\ ledger'.op = "append_new_ideas" =>
             (ledger'.ret = FALSE <=> (ledger'.k = 0 \/ ~ledger'.append_ok))]_vars

C13_Witness ==
    /\ sheet0 = <<SpacedHeaders, RowOf(SpacedHeaders, "1", "for production", "pending")>>
    /\ step_index = 2
    /\ ledger.op = "append_new_ideas"
    /\ ~ledger.read_ok
    /\ ledger.k = 1
    /\ ledger.ret = TRUE
    /\ Len(sheet) = 3
    /\ Cell(sheet[2], Column(sheet, "Production")) = "for production"

(***************************************************************************)
(* Properties of the status reads, checked under SpecReads                 *)
(***************************************************************************)
\* C23: get_ideas_for_publishing returns the rows whose publishing status is
\* 'for publishing' in any letter casing, get_ideas_for_production only the
\* rows whose production status is exactly the lower-case 'for production'.
C23_CaseAsymmetry ==
    [][/\ (ledger'.op = "get_ideas_for_publishing" /\ ledger'.read_ok) =>
            ledger'.ret = {r \in 2..Len(sheet) :
                             StatusOf(sheet, r) \in {"for publishing", "For Publishing",
                                                      "FOR PUBLISHING"}}
       /\ (ledger'.op = "get_ideas_for_production" /\ ledger'.read_ok) =>
            ledger'.ret = {r \in 2..Len(sheet) :
                             ProductionOf(sheet, r) = "for production"}]_vars

C23_Witness ==
    /\ ledger.op = "get_ideas_for_production"
    /\ ledger.read_ok
    /\ Len(sheet) = 3
    /\ ProductionOf(sheet, 2) = "For Production"
    /\ ProductionOf(sheet, 3) = "for production"
    /\ StatusOf(sheet, 2) = "FOR PUBLISHING"
    /\ ledger.ret = {3}
    /\ get_ideas_for_publishing(get_values(sheet, TRUE)) = {2}

\* C28: a link update that cannot resolve its row and returns False leaves
\* the ledger as it was: after such a call of update_video_link, of the
\* ledger manager or of the publisher, no cell, the header row included,
\* differs from before.
C28_FailedUpdateChangesNothing ==
    [][(/\ ledger'.op \in {"update_video_link", "publisher_update_video_link"}
        /\ ledger'.ok
        /\ Len(sheet) >= 2
        /\ ledger'.ret = FALSE) => sheet' = sheet]_vars

(***************************************************************************)
(* The media stages of one run: scripts/image_generator.py,                *)
(* scripts/video_processor.py and scripts/audio_generator.py each walk a   *)
(* list and write a result list, and scripts/video_composer.py pairs the   *)
(* video and audio lists by position.  files holds enhanced_scenes.json    *)
(* ("prompts": for each scene whether it has an enhanced_prompt), the      *)
(* three result files and the clips the composer built ("compose");        *)
(* step_id is the stage at work, step_index its loop cursor, attempt the   *)
(* number of items it has processed, results its list so far; result,      *)
(* calls, invoked and success_count are what the runner sees when a stage  *)
(* returns.  An entry records its type, the scene its media was made from, *)
(* its success flag and whether it carries a Drive file_id.                *)
(***************************************************************************)
MaxScenes == 3
MAX_RETRIES == 5
MAX_SCENES_PER_VIDEO == 5

SceneLists == UNION {[1..n -> BOOLEAN] : n \in 1..MaxScenes}
MediaFiles == {"prompts", "images", "videos", "audio", "compose"}
\* failed attempts of one item: none, all but the last, every one
AttemptFailures == {0, MAX_RETRIES - 1, MAX_RETRIES}

\* json.dump of a result list, and the list json.load reads back from a file
results_file(list) == [j |-> "array", items |-> list]
load_results(fs, f) == IF fs[f] = Absent THEN <<>> ELSE fs[f].items

entry(type, scene, success, file_id) ==
    [type |-> type, scene |-> scene, success |-> success, file_id |-> file_id]

MediaInit ==
    /\ args = [mode |-> "usage", step |-> None, start |-> None, end |-> None,
               retry |-> 0, keep_temp |-> FALSE]
    /\ pc = "media"
    /\ steps_to_run = <<>>
    /\ step_index = 0
    /\ step_id = "images"
    /\ attempt = 0
    /\ behaviour = NoBehaviour
    /\ calls = 0
    /\ invoked = <<>>
    /\ result = <<>>
    /\ results = <<>>
    /\ success_count = 0
    /\ \E scenes \in SceneLists :
           files = [f \in MediaFiles |->
                      IF f = "prompts" THEN results_file(scenes) ELSE Absent]
    /\ files0 = files
    /\ summary_file = Absent
    /\ warned = {}
    /\ exit_code = NotExited
    /\ sheet = <<>>
    /\ sheet0 = sheet
    /\ ledger = LedgerIdle

media_step ==
    /\ pc = "media"
    /\ UNCHANGED <<args, pc, steps_to_run, behaviour, files0, summary_file, warned,
                   exit_code, sheet, sheet0, ledger>>

\* the loop of a stage moves to its next input; the runner sees nothing yet
loop_step(stage) ==
    /\ media_step
    /\ step_id = stage
    /\ step_index' = step_index + 1
    /\ UNCHANGED <<step_id, calls, invoked, result, success_count, files>>

\* run_step and run_pipeline on what a stage returned: it is not None, so
\* the stage counts as successful (the <step>_result.json run_step writes
\* is read by no stage and is not among these files)
stage_returns(stage, next, processed, returned) ==
    /\ media_step
    /\ step_id = stage
    /\ step_id' = next
    /\ step_index' = 0
    /\ attempt' = 0
    /\ results' = <<>>
    /\ calls' = processed
    /\ result' = returned
    /\ invoked' = Append(invoked, stage)
    /\ success_count' = success_count + 1

\* results.append(item)
append_entry_alone(rs, e) == <<e>>
append_entry(rs, e) == Append(rs, e)

\* enhanced_scenes of enhanced_scenes.json
enhanced_scenes(fs) == load_results(fs, "prompts")

\* generate_image_from_prompt: up to MAX_RETRIES attempts, then a failure entry
generate_image_from_prompt(scene, failures) ==
    entry("image", scene, failures < MAX_RETRIES, failures < MAX_RETRIES)

\* one turn of the loop of ImageGenerator.process_enhanced_scenes
image_item ==
    /\ loop_step("images")
    /\ step_index < Len(enhanced_scenes(files))
    /\ IF enhanced_scenes(files)[step_index + 1]
         THEN /\ \E failures \in AttemptFailures :
                     results' = append_entry(results,
                                    generate_image_from_prompt(step_index + 1, failures))
              /\ attempt' = attempt + 1
         ELSE UNCHANGED <<results, attempt>>

\* process_from_sheets: no idea to draw, or one image made from the ledger
process_from_sheets == {<<>>} \cup {<<generate_image_from_prompt(0, failures)>> :
                                        failures \in AttemptFailures}

\* the end of process_enhanced_scenes and of main of image_generator.py
image_stage_returns ==
    /\ step_index = Len(enhanced_scenes(files))
    /\ files' = [files EXCEPT !["images"] = results_file(results)]
    /\ IF results = <<>>
         THEN \E sheet_results \in process_from_sheets :
                  stage_returns("images", "videos", Len(sheet_results), sheet_results)
         ELSE stage_returns("images", "videos", attempt, results)

\* image_results[:MAX_SCENES_PER_VIDEO]
image_results(fs) ==
    SubSeq(load_results(fs, "images"), 1,
           Min2(Len(load_results(fs, "images")), MAX_SCENES_PER_VIDEO))

\* process_single_image: no video without the image, else the clip may fail,
\* or be made and not reach Drive, or be made and uploaded
process_single_image(image_info) ==
    IF ~image_info.success THEN {entry("video", image_info.scene, FALSE, FALSE)}
    ELSE {entry("video", image_info.scene, FALSE, FALSE),
          entry("video", image_info.scene, TRUE, FALSE),
          entry("video", image_info.scene, TRUE, TRUE)}

\* one turn of the loop of VideoProcessor.process_videos
video_item ==
    /\ loop_step("videos")
    /\ step_index < Len(image_results(files))
    /\ \E e \in process_single_image(image_results(files)[step_index + 1]) :
           results' = append_entry(results, e)
    /\ attempt' = attempt + 1

\* the entry of the combined video: built from the clips that succeeded and
\* listed only once it is uploaded
combined_video(video_results) ==
    IF \E i \in 1..Len(video_results) : video_results[i].success
      THEN {<<>>, <<entry("combined_video", 0, TRUE, TRUE)>>}
      ELSE {<<>>}

\* the end of process_videos and of main of video_processor.py; with no image
\* result the stage returns [] and writes no video_results.json
video_stage_returns ==
    /\ step_index = Len(image_results(files))
    /\ IF image_results(files) = <<>>
         THEN /\ stage_returns("videos", "audio", 0, <<>>)
              /\ UNCHANGED files
         ELSE \E combined \in combined_video(results) :
                  /\ files' = [files EXCEPT !["videos"] = results_file(results \o combined)]
                  /\ stage_returns("videos", "audio", attempt, results \o combined)

\* generate_audio retried MAX_RETRIES times; a made audio is flagged success
\* whether or not upload_to_drive stored it
audio_info(scene, failures) ==
    IF failures >= MAX_RETRIES THEN {entry("audio", scene, FALSE, FALSE)}
    ELSE {entry("audio", scene, TRUE, FALSE), entry("audio", scene, TRUE, TRUE)}

\* one turn of the loop of AudioGenerator.process_enhanced_scenes: a scene
\* without enhanced_prompt is voiced from its original text
audio_item ==
    /\ loop_step("audio")
    /\ step_index < Len(enhanced_scenes(files))
    /\ \E failures \in AttemptFailures : \E e \in audio_info(step_index + 1, failures) :
           results' = append_entry(results, e)
    /\ attempt' = attempt + 1

audio_stage_returns ==
    /\ step_index = Len(enhanced_scenes(files))
    /\ files' = [files EXCEPT !["audio"] = results_file(results)]
    /\ stage_returns("audio", "compose", attempt, results)

\* load_video_results: video_results.json, else the image results
load_video_results(fs) ==
    IF fs["videos"] # Absent THEN load_results(fs, "videos") ELSE load_results(fs, "images")

load_audio_results(fs) == load_results(fs, "audio")

\* min(len(video_results), len(audio_results), MAX_SCENES_PER_VIDEO)
max_scenes(fs) ==
    Min2(Min2(Len(load_video_results(fs)), Len(load_audio_results(fs))),
         MAX_SCENES_PER_VIDEO)

\* download_from_drive can fetch only an entry that carries a file_id
downloadable(fs) ==
    {i \in 1..max_scenes(fs) :
        load_video_results(fs)[i].file_id /\ load_audio_results(fs)[i].file_id}

\* the pairing loop of VideoComposer.process_video_composition: position i of the video
\* list with position i of the audio list, for every i both downloads and
\* the combination succeed
compose_pairs ==
    /\ media_step
    /\ step_id = "compose"
    /\ \E combined \in SUBSET downloadable(files) :
           files' = [files EXCEPT !["compose"] = results_file(
                        [i \in combined |-> [video |-> load_video_results(files)[i],
                                             audio |-> load_audio_results(files)[i]]])]
    /\ stage_returns("compose", "done", max_scenes(files),
                     IF DOMAIN files'["compose"].items = {} THEN FailDict ELSE SuccessDict)

MediaNext ==
    \/ image_item
    \/ image_stage_returns
    \/ video_item
    \/ video_stage_returns
    \/ audio_item
    \/ audio_stage_returns
    \/ compose_pairs

SpecMedia == MediaInit /\ [][MediaNext]_vars

(***************************************************************************)
(* Properties of the media stages                                          *)
(***************************************************************************)
ListStages == {"images", "videos", "audio"}
Extends(longer, shorter) ==
    /\ Len(shorter) <= Len(longer)
    /\ \A i \in 1..Len(shorter) : longer[i] = shorter[i]

\* C21: position i of the image, video and audio result lists belongs to
\* scene i, whatever items failed or lacked an enhanced prompt, so every clip
\* the composer builds joins the video and the audio of the same scene.
C21_EntriesAlignedByScene ==
    /\ \A f \in ListStages : \A i \in 1..Len(load_results(files, f)) :
           load_results(files, f)[i].scene = i
    /\ \A i \in DOMAIN load_results(files, "compose") :
           load_results(files, "compose")[i].video.scene =
               load_results(files, "compose")[i].audio.scene

\* C22: an item that fails after its retries neither stops its stage nor
\* touches the entries before it: the list only grows during the loop, the
\* stage returns one flagged entry per processed item, and the runner counts
\* the stage as successful.
C22_ItemFailuresStayLocal ==
    [][/\ (step_id \in ListStages /\ step_id' = step_id) => Extends(results', results)
       /\ (step_id \in ListStages /\ step_id' # step_id) =>
              /\ Extends(result', results)
              /\ \A i \in 1..Len(result') : result'[i].success \in BOOLEAN
              /\ Len(result') = calls'
              /\ success_count' = success_count + 1]_vars

\* the entry process_videos adds after the entries of its items
CombinedEntries(stage, returned, items) ==
    IF /\ stage = "videos"
       /\ Len(returned) = items + 1
       /\ returned[items + 1].type = "combined_video"
       /\ \E i \in 1..items : returned[i].success
      THEN 1 ELSE 0

\* C22 as the code has it: the same, with the list of the video stage ending
\* in one more entry, of type combined_video, when a clip succeeded and the
\* combined video was built and uploaded.
C22_ItemFailuresStayLocalAmended ==
    [][/\ (step_id \in ListStages /\ step_id' = step_id) => Extends(results', results)
       /\ (step_id \in ListStages /\ step_id' # step_id) =>
              /\ Extends(result', results)
              /\ \A i \in 1..Len(result') : result'[i].success \in BOOLEAN
              /\ Len(result') = calls' + CombinedEntries(step_id, result', calls')
              /\ success_count' = success_count + 1]_vars

C22_Witness ==
    /\ pc = "media"
    /\ step_id = "audio"
    /\ invoked = <<"images", "videos">>
    /\ Len(enhanced_scenes(files)) = 2
    /\ calls = 2
    /\ Len(result) = 2
    /\ \A i \in 1..2 : result[i].type = "video" /\ ~result[i].success
    /\ \A i \in 1..2 : ~load_results(files, "images")[i].success
    /\ success_count = 2

(***************************************************************************)
(* YouTubePublisher.upload_video_to_youtube: the resumable upload of one   *)
(* video file.  calls is the size of the file in chunks, step_index the    *)
(* chunks YouTube has taken, attempt the number of next_chunk calls        *)
(* (counted up to MaxChunkCalls, at which the count stops), behaviour the  *)
(* outcome of the last call, result what the function returned.            *)
(***************************************************************************)
MaxChunks == 3
MaxChunkCalls == 6

\* the statuses upload_video_to_youtube sleeps on and tries again
RetryableStatuses == {500, 502, 503, 504}
OtherStatuses == {400, 401, 403, 404}
\* the insert response: a video resource, with or without an id
InsertResponses == {PyStr(v) : v \in VideoIds} \cup {PyNone}

UploadInit ==
    /\ args = [mode |-> "usage", step |-> None, start |-> None, end |-> None,
               retry |-> 0, keep_temp |-> FALSE]
    /\ pc = "upload_video_to_youtube"
    /\ steps_to_run = <<>>
    /\ step_index = 0
    /\ step_id = None
    /\ attempt = 0
    /\ behaviour = NoBehaviour
    /\ calls \in 1..MaxChunks
    /\ invoked = <<>>
    /\ result = PyNone
    /\ results = <<>>
    /\ success_count = 0
    /\ \E exists \in BOOLEAN :
           files = [s \in StepIds |-> IF s = "compose" /\ exists THEN json_dump(SuccessDict)
                                      ELSE Absent]
    /\ files0 = files
    /\ summary_file = Absent
    /\ warned = {}
    /\ exit_code = NotExited
    /\ sheet = <<>>
    /\ sheet0 = sheet
    /\ ledger = LedgerIdle

upload_step ==
    UNCHANGED <<args, steps_to_run, step_id, calls, invoked, results, success_count,
                files, files0, summary_file, warned, exit_code, sheet, sheet0, ledger>>

\* the function returns v
upload_returns(v) == pc' = "returned" /\ result' = v

\* up to the loop: no file, or videos().insert raises, or the loop is entered
insert_request ==
    /\ pc = "upload_video_to_youtube"
    /\ upload_step
    /\ UNCHANGED <<step_index, attempt, behaviour>>
    /\ IF files["compose"] = Absent THEN upload_returns(PyNone)
       ELSE \/ upload_returns(PyNone)
            \/ pc' = "next_chunk" /\ UNCHANGED result

\* one call of insert_request.next_chunk() with its outcome
next_chunk_called(answer) ==
    /\ pc = "next_chunk"
    /\ upload_step
    /\ attempt' = Min2(attempt + 1, MaxChunkCalls)
    /\ behaviour' = [fails |-> 0, val |-> answer]

\* a chunk is taken and the file is not finished: response is None
next_chunk_progress ==
    /\ step_index + 1 < calls
    /\ next_chunk_called(PyStr("progress"))
    /\ step_index' = step_index + 1
    /\ UNCHANGED <<pc, result>>

\* the last chunk is taken: the response ends the loop
next_chunk_response ==
    /\ step_index + 1 = calls
    /\ \E response \in InsertResponses :
           /\ next_chunk_called(response)
           /\ upload_returns(response)
    /\ step_index' = step_index + 1

\* HttpError 500, 502, 503 or 504: sleep five seconds, go round the loop
next_chunk_server_error ==
    /\ \E status \in RetryableStatuses : next_chunk_called(PyInt(status))
    /\ UNCHANGED <<pc, step_index, result>>

\* any other HttpError, or any other exception: return None
next_chunk_error ==
    /\ \E answer \in {PyInt(status) : status \in OtherStatuses} \cup {PyStr("exception")} :
           next_chunk_called(answer)
    /\ upload_returns(PyNone)
    /\ UNCHANGED step_index

UploadNext ==
    \/ insert_request
    \/ next_chunk_progress
    \/ next_chunk_response
    \/ next_chunk_server_error
    \/ next_chunk_error

SpecUpload == UploadInit /\ [][UploadNext]_vars
\* the function is running: its next statement is always executed
SpecUploadFair == SpecUpload /\ WF_vars(UploadNext)

\* C27: upload_video_to_youtube returns whatever YouTube answers, also when
\* every next_chunk call gets a retryable 5xx error.
C27_UploadTerminates == <>(pc = "returned")

\* the chunks of the file bound the calls once no call gets a retryable error
UploadReturnsWithoutServerErrors ==
    [](behaviour.val \notin {PyInt(status) : status \in RetryableStatuses}) =>
        <>(pc = "returned")

====
